---- MODULE Spec2Model ----
(***************************************************************************)
(* State-machine model of postProcess/getData.c: one run of the snapshot   *)
(* extraction tool, from the command line to process exit.                 *)
(*                                                                         *)
(* Numbers.  A C double is modelled as an exact rational <<n, d>> (d > 0,  *)
(* lowest terms); rounding of double arithmetic is outside the model.  The *)
(* one double that does not fit a model integer, the token "1e300", is the *)
(* value Big == <<1, 0>>.  A C int keeps its 32-bit range: the conversion  *)
(* (int) of a double outside [IntMin, IntMax] is undefined behaviour and   *)
(* is a choice among the results the usual targets give.                   *)
(***************************************************************************)
EXTENDS Integers, Sequences, FiniteSets, TLC

(* ------------------------------ bounds -------------------------------- *)

\* Loop iterations of the outer (i) loops that the model follows; every nx that
\* is not the result of an out-of-range conversion is below it.
MaxNx == 9

(* ------------------------- exact rationals ---------------------------- *)

RECURSIVE Gcd(_, _)
Gcd(a, b) == IF b = 0 THEN a ELSE Gcd(b, a % b)

Abs(n) == IF n < 0 THEN -n ELSE n

Big == <<1, 0>>
IsBig(a) == a[2] = 0

RNorm(n, d) ==
  LET g == Gcd(Abs(n), Abs(d))
      s == IF d < 0 THEN -1 ELSE 1
  IN  <<(s * n) \div g, (s * d) \div g>>

Rat(n) == <<n, 1>>
RAdd(a, b) == IF IsBig(a) \/ IsBig(b) THEN Big
              ELSE RNorm(a[1] * b[2] + b[1] * a[2], a[2] * b[2])
RSub(a, b) == IF IsBig(a) THEN Big
              ELSE RNorm(a[1] * b[2] - b[1] * a[2], a[2] * b[2])
RMul(a, b) == IF IsBig(a) \/ IsBig(b) THEN Big
              ELSE RNorm(a[1] * b[1], a[2] * b[2])
\* a / b for b # 0 (b is never Big: Big enters only through xmax)
RDiv(a, b) == IF IsBig(a) THEN Big
              ELSE RNorm(a[1] * b[2], a[2] * b[1])
RLt(a, b) == IF IsBig(b) THEN ~IsBig(a)
             ELSE IF IsBig(a) THEN FALSE
             ELSE a[1] * b[2] < b[1] * a[2]
RLe(a, b) == a = b \/ RLt(a, b)
sq(a) == RMul(a, a)

\* floor of a finite rational (\div rounds toward minus infinity)
RFloor(a) == a[1] \div a[2]
\* truncation toward zero, the value of (int) a when it is in range
RTrunc(a) == IF a[1] >= 0 THEN a[1] \div a[2] ELSE -((-a[1]) \div a[2])

(* ------------------------------ C int --------------------------------- *)

IntMax == 2147483647
IntMin == -IntMax - 1

\* (int) a, src/postProcess/getData.c:168.  In range: truncation.  Out of
\* range the behaviour is undefined: x86 cvttsd2si gives INT_MIN, the
\* saturating conversions (AArch64, RISC-V) give INT_MAX.
DoubleToInt(a) ==
  IF IsBig(a) THEN {IntMin, IntMax} ELSE {RTrunc(a)}

(* --------------------------- field values ----------------------------- *)

\* A value held by a mesh scalar, a buffer slot or an output column: a tag k and
\* a rational v.  "rat": v itself; "log10": log10(v), v > 0; "sqrt": sqrt(v),
\* v >= 0 and no perfect square; "nodata": the value interpolate returns off
\* the mesh; "-inf", "nan": what log gives for 0 and for a negative argument;
\* "unset": an element never assigned.
Val(k, v) == [k |-> k, v |-> v]
RatVal(a) == Val("rat", a)
nodata == Val("nodata", Rat(0))
Unset == Val("unset", Rat(0))

IsSquare(n) == \E s \in 0..n : s * s = n
ISqrt(n) == CHOOSE s \in 0..n : s * s = n

\* sqrt(a) of <math.h>
sqrt(a) ==
  IF a[1] < 0 THEN Val("nan", Rat(0))
  ELSE IF IsSquare(a[1]) /\ IsSquare(a[2]) THEN RatVal(RNorm(ISqrt(a[1]), ISqrt(a[2])))
  ELSE Val("sqrt", a)

\* log(a)/log(10), src/postProcess/getData.c:299
log10(a) ==
  IF RLt(Rat(0), a) THEN Val("log10", a)
  ELSE IF a = Rat(0) THEN Val("-inf", Rat(0))
  ELSE Val("nan", Rat(0))

(* ------------------------- printf("%g", ...) --------------------------- *)

RECURSIVE Pow10(_)
Pow10(e) == IF e = 0 THEN 1 ELSE 10 * Pow10(e - 1)

\* The decimal exponent of a positive rational n/d: the e with
\* 10^e <= n/d < 10^(e+1).
Exp10(n, d) ==
  CHOOSE e \in -7..7 :
    /\ IF e >= 0 THEN Pow10(e) * d <= n ELSE d <= n * Pow10(-e)
    /\ IF e + 1 >= 0 THEN n < Pow10(e + 1) * d ELSE n * Pow10(-(e + 1)) < d

\* n/d rounded to an integer, ties to even
RoundHalfEven(n, d) ==
  LET q == n \div d
      r == n % d
  IN  IF 2 * r < d THEN q
      ELSE IF 2 * r > d THEN q + 1
      ELSE IF q % 2 = 0 THEN q ELSE q + 1

\* The number a "%g" conversion prints for the rational a: a rounded to six
\* significant decimal digits.
FmtG_rat(a) ==
  IF IsBig(a) \/ a[1] = 0 THEN a
  ELSE LET n == Abs(a[1])
           d == a[2]
           e == Exp10(n, d)
           m == IF 5 - e >= 0 THEN RoundHalfEven(n * Pow10(5 - e), d)
                ELSE RoundHalfEven(n, d * Pow10(e - 5))
           s == IF a[1] < 0 THEN -1 ELSE 1
       IN  IF 5 - e >= 0 THEN RNorm(s * m, Pow10(5 - e))
           ELSE RNorm(s * m * Pow10(e - 5), 1)

\* The text "%g" prints for a field value: the six-digit rounding of a
\* rational, the six-digit rendering (tag "g:...") of an irrational one.
FmtG(x) ==
  IF x.k = "rat" THEN RatVal(FmtG_rat(x.v))
  ELSE IF x.k \in {"log10", "sqrt"} THEN Val("g:" \o x.k, x.v)
  ELSE x

(* --------------------------- command line ------------------------------ *)

\* atof: the value of the longest numeric prefix, 0.0 when there is none
atof(tok) ==
  CASE tok = "0" -> Rat(0)
    [] tok = "1" -> Rat(1)
    [] tok = "2" -> Rat(2)
    [] tok = "1e300" -> Big
    [] tok = "abc" -> Rat(0)
    [] OTHER -> Rat(0)

\* atoi: the value of the longest integer prefix, 0 when there is none
atoi(tok) ==
  CASE tok = "-1" -> -1
    [] tok = "0" -> 0
    [] tok = "1" -> 1
    [] tok = "3" -> 3
    [] tok = "4" -> 4
    [] tok = "2x" -> 2
    [] tok = "abc" -> 0
    [] OTHER -> 0

XminTokens == {"0", "1", "abc"}
YminTokens == {"0", "1"}
XmaxTokens == {"1", "2", "1e300"}
YmaxTokens == {"1", "2"}
NyTokens == {"-1", "0", "1", "3", "4", "2x"}

\* The command lines of the model: argv[1] is the program name (C's argv[0]).
CommandLines ==
  { <<"getData", "snap", a, b, c, d, n>> :
      a \in XminTokens, b \in YminTokens, c \in XmaxTokens, d \in YmaxTokens,
      n \in NyTokens }
  \cup { <<"getData">>,
         <<"getData", "snap", "0", "0", "1", "2">>,
         <<"getData", "snap", "0", "0", "1", "2", "4", "8">> }

(* ------------------------ snapshots and the mesh ----------------------- *)

\* Leaf cells per direction of a restored mesh
MeshN == 2

Leaves == (0..(MeshN - 1)) \X (0..(MeshN - 1))
\* leaves and the layer of ghost cells the stencils reach
Cells == (-1..MeshN) \X (-1..MeshN)

\* The snapshot files restore may find: 1 extension (u = (cx, cy), f = 1),
\* 2 fluid at rest in the gas (f = 0), 3 uniform flow (3, 4) over an axis cell
\* (Y0 = -1/2), 4 shear with a volume-fraction undershoot (f = -1).
Snapshots == 1..4
SnapUx(s, c) == CASE s = 1 -> Rat(c[1]) [] s = 2 -> Rat(0) [] s = 3 -> Rat(3) [] OTHER -> Rat(c[2])
SnapUy(s, c) == CASE s = 1 -> Rat(c[2]) [] s = 2 -> Rat(0) [] s = 3 -> Rat(4) [] OTHER -> Rat(0)
SnapF(s, c) == CASE s = 1 -> Rat(1) [] s = 2 -> Rat(0) [] s = 3 -> <<1, 2>> [] OTHER -> Rat(-1)
SnapY0(s) == IF s = 3 THEN <<-1, 2>> ELSE Rat(0)
SnapDelta(s) == IF s = 4 THEN <<1, 2>> ELSE Rat(1)

NoGrid == [leaves |-> {}, X0 |-> Rat(0), Y0 |-> Rat(0), Delta |-> Rat(1)]
NoField == [c \in {} |-> Unset]

(* ------------------------------ state ---------------------------------- *)

VARIABLES
  argv,            \* the command line
  AXI,             \* the build's geometry macro, 1 or 0
  pc,              \* the statement of main about to run
  status,          \* "running", "exit0", "exit1", or "signal" (killed)
  cfg,             \* extraction_config
  field_list,      \* the registered scalars, in order
  grid,            \* the restored mesh: its leaves, origin and cell size
  f, u,            \* volume fraction and velocity of the snapshot
  D2c, vel,        \* the derived scalars
  restore_result,  \* "none", "ok", "false" (could not open), "exit"
  field_buffer,    \* the matrix of matrix_new
  i, j,            \* loop counters of sample_fields / write_fields
  ferr,            \* lines written to ferr (stderr): diagnostics and rows
  fp_state,        \* "open", "flushed", "closed"
  calls,           \* the interpolate calls made so far
  stages,          \* the functions main has called so far
  accesses,        \* the elements of field_buffer stored to and loaded, in order
  twin,            \* what an earlier run of the AXI=1 build on this input gave
  cleanup_calls    \* the calls cleanup_output has made, in order

\* The variables of runParameterSweep.sh and src-local/sweep_utils.sh
VARIABLES
  sweep_argv,               \* the command line of runParameterSweep.sh
  sweep_file,               \* the sweep file: exists, BASE_CONFIG, CASE_START, CASE_END, SWEEP_* lines
  base_config,              \* the base parameter file: exists, its key=value lines
  sweep_pc,                 \* the part of the script about to run
  sweep_status,             \* "running" or the exit status
  flags,                    \* DRY_RUN, VERBOSE, STAGE1_ONLY, STAGE2_ONLY, MPI_ENABLED
  SWEEP_VARS,               \* names extract_sweep_variables found
  SWEEP_VALUES,             \* their value texts
  SWEEP_CASE_NUM,
  SWEEP_COMBINATION_COUNT,
  SWEEP_CASE_FILES,         \* the case files generated, in order
  temp_dir,                 \* the files of SWEEP_TEMP_DIR: name -> lines
  sweep_out,                \* the lines echoed (stdout and stderr)
  invocations,              \* the calls of ./runSimulation.sh, in order
  case_idx                  \* the position of the simulation loop in SWEEP_CASE_FILES

getDataVars == <<argv, AXI, pc, status, cfg, field_list, grid, f, u, D2c, vel,
                 restore_result, field_buffer, i, j, ferr, fp_state, calls, stages,
                 accesses, twin, cleanup_calls>>

sweepVars == <<sweep_argv, sweep_file, base_config, sweep_pc, sweep_status, flags,
               SWEEP_VARS, SWEEP_VALUES, SWEEP_CASE_NUM, SWEEP_COMBINATION_COUNT,
               SWEEP_CASE_FILES, temp_dir, sweep_out, invocations, case_idx>>

vars == <<getDataVars, sweepVars>>

Diag(text) == [tag |-> "diag", text |-> text, i |-> 0, j |-> 0, vals |-> <<>>]
Row(ii, jj, vals) == [tag |-> "row", text |-> "", i |-> ii, j |-> jj, vals |-> vals]
Rows == SelectSeq(ferr, LAMBDA l : l.tag = "row")
Diags == SelectSeq(ferr, LAMBDA l : l.tag = "diag")

\* extraction_config before parse_arguments fills it (indeterminate, and not
\* read before it is assigned)
NoConfig ==
  [filename |-> "", xmin |-> Rat(0), ymin |-> Rat(0), xmax |-> Rat(0),
   ymax |-> Rat(0), Deltax |-> Rat(0), Deltay |-> Rat(0), nx |-> 0, ny |-> 0]

\* no earlier run
NoTwin == [ran |-> FALSE]

\* runParameterSweep.sh not started: the state of its variables while getData
\* runs
NoSweepFile == [exists |-> FALSE, BASE_CONFIG |-> "", CASE_START |-> 0,
                CASE_END |-> 0, sweeps |-> <<>>]
NoFlags == [DRY_RUN |-> 0, VERBOSE |-> 0, STAGE1_ONLY |-> 0, STAGE2_ONLY |-> 0,
            MPI_ENABLED |-> 0]
SweepIdle ==
  /\ sweep_argv = <<>>
  /\ sweep_file = NoSweepFile
  /\ base_config = [exists |-> FALSE, lines |-> <<>>]
  /\ sweep_pc = "idle"
  /\ sweep_status = "running"
  /\ flags = NoFlags
  /\ SWEEP_VARS = <<>>
  /\ SWEEP_VALUES = <<>>
  /\ SWEEP_CASE_NUM = 0
  /\ SWEEP_COMBINATION_COUNT = 0
  /\ SWEEP_CASE_FILES = <<>>
  /\ temp_dir = [n \in {} |-> <<>>]
  /\ sweep_out = <<>>
  /\ invocations = <<>>
  /\ case_idx = 0

Init ==
  /\ SweepIdle
  /\ accesses = <<>>
  /\ twin = NoTwin
  /\ cleanup_calls = <<>>
  /\ argv \in CommandLines
  /\ AXI \in {0, 1}
  /\ pc = "parse_arguments"
  /\ status = "running"
  /\ cfg = NoConfig
  /\ field_list = <<>>
  /\ grid = NoGrid
  /\ f = NoField
  /\ u = [x |-> NoField, y |-> NoField]
  /\ D2c = NoField
  /\ vel = NoField
  /\ restore_result = "none"
  /\ field_buffer = [state |-> "none", rows |-> 0, cols |-> 0, data |-> NoField]
  /\ i = 0
  /\ j = 0
  /\ ferr = <<>>
  /\ fp_state = "open"
  /\ calls = <<>>
  /\ stages = <<>>

(* --------------------------- parse_arguments --------------------------- *)

\* The extraction_config the conversions of lines 139-144 produce
ParsedConfig(av) ==
  [NoConfig EXCEPT !.filename = av[2], !.xmin = atof(av[3]), !.ymin = atof(av[4]),
                   !.xmax = atof(av[5]), !.ymax = atof(av[6]), !.ny = atoi(av[7])]

\* parse_arguments without the test of the bounds (lines 151-155 left out)
ParseErrors_NoBoundsTest(av) ==
  IF Len(av) # 7
    THEN <<Diag("Error: Expected 6 arguments"),
           Diag("Usage: <filename> <xmin> <ymin> <xmax> <ymax> <ny>")>>
  ELSE IF ParsedConfig(av).ny <= 0 THEN <<Diag("Error: ny must be positive.")>>
  ELSE <<>>

\* parse_arguments printing the usage line with every error
ParseErrors_UsageAlways(av) ==
  IF Len(av) # 7
    THEN <<Diag("Error: Expected 6 arguments"),
           Diag("Usage: <filename> <xmin> <ymin> <xmax> <ymax> <ny>")>>
  ELSE LET c == ParsedConfig(av)
       IN  IF c.ny <= 0
             THEN <<Diag("Error: ny must be positive."),
                    Diag("Usage: <filename> <xmin> <ymin> <xmax> <ymax> <ny>")>>
           ELSE IF RLe(c.xmax, c.xmin) \/ RLe(c.ymax, c.ymin)
             THEN <<Diag("Error: Bounds must satisfy xmax>xmin and ymax>ymin."),
                    Diag("Usage: <filename> <xmin> <ymin> <xmax> <ymax> <ny>")>>
           ELSE <<>>

\* The diagnostics of parse_arguments for the command line av; <<>> when it
\* returns 1.
ParseErrors(av) ==
  IF Len(av) # 7
    THEN <<Diag("Error: Expected 6 arguments"),
           Diag("Usage: <filename> <xmin> <ymin> <xmax> <ymax> <ny>")>>
  ELSE LET c == ParsedConfig(av)
       IN  IF c.ny <= 0 THEN <<Diag("Error: ny must be positive.")>>
           ELSE IF RLe(c.xmax, c.xmin) \/ RLe(c.ymax, c.ymin)
             THEN <<Diag("Error: Bounds must satisfy xmax>xmin and ymax>ymin.")>>
           ELSE <<>>

\* main, lines 103-104: parse_arguments, return 1 when it fails
parse_arguments ==
  /\ pc = "parse_arguments"
  /\ status = "running"
  /\ stages' = Append(stages, "parse_arguments")
  /\ ferr' = ferr \o ParseErrors(argv)
  /\ cfg' = IF Len(argv) # 7 THEN cfg ELSE ParsedConfig(argv)
  /\ IF ParseErrors(argv) # <<>>
       THEN pc' = "done" /\ status' = "exit1"
       ELSE pc' = "configure_grid" /\ status' = status
  /\ UNCHANGED sweepVars
  /\ UNCHANGED <<argv, AXI, twin, cleanup_calls, accesses, field_list, grid, f, u, D2c, vel, restore_result,
                 field_buffer, i, j, fp_state, calls>>

(* --------------------------- configure_grid ---------------------------- *)

\* Deltay, line 167
GridDeltay(c) == RDiv(RSub(c.ymax, c.ymin), Rat(c.ny))
\* the values (int) ((xmax - xmin)/Deltay) may take, line 168
GridNx(c) == DoubleToInt(RDiv(RSub(c.xmax, c.xmin), GridDeltay(c)))
\* the test of line 170 written nx < 0
GridRejected_Strict(nx) == nx < 0
\* the test of line 170
GridRejected(nx) == nx <= 0
\* Deltax, line 176
GridDeltax(c, nx) == RDiv(RSub(c.xmax, c.xmin), Rat(nx))

\* main, lines 106-107: configure_grid, return 1 when it fails
configure_grid ==
  /\ pc = "configure_grid"
  /\ stages' = Append(stages, "configure_grid")
  /\ \E nx \in GridNx(cfg) :
       IF GridRejected(nx)
         THEN /\ cfg' = [cfg EXCEPT !.Deltay = GridDeltay(cfg), !.nx = nx]
              /\ ferr' = Append(ferr, Diag("Error: Computed nx <= 0. Check the provided bounds."))
              /\ pc' = "done"
              /\ status' = "exit1"
         ELSE /\ cfg' = [cfg EXCEPT !.Deltay = GridDeltay(cfg), !.nx = nx,
                                    !.Deltax = GridDeltax(cfg, nx)]
              /\ ferr' = ferr
              /\ pc' = "register_fields"
              /\ status' = status
  /\ UNCHANGED sweepVars
  /\ UNCHANGED <<argv, AXI, twin, cleanup_calls, accesses, field_list, grid, f, u, D2c, vel, restore_result,
                 field_buffer, i, j, fp_state, calls>>

(* ------------------------ register_fields, restore --------------------- *)

\* a list_add that puts s in front
list_add_front(list, s) == <<s>> \o list
\* list_add appends s at the end of the list
list_add(list, s) == Append(list, s)
list_len(list) == Len(list)

\* main, line 109
register_fields ==
  /\ pc = "register_fields"
  /\ stages' = Append(stages, "register_fields")
  /\ field_list' = list_add(list_add(field_list, "D2c"), "vel")
  /\ pc' = "restore"
  /\ UNCHANGED sweepVars
  /\ UNCHANGED <<argv, AXI, twin, cleanup_calls, accesses, status, cfg, grid, f, u, D2c, vel, restore_result,
                 field_buffer, i, j, ferr, fp_state, calls>>

\* What main does with the result of restore, line 110: the result is
\* discarded, so main goes on to compute_fields whatever it is.
AfterRestore(result) == "compute_D2c_field"

\* main, line 110: restore (file = cfg.filename).  restore either loads a
\* snapshot into the mesh, or returns false because the file cannot be opened
\* (the result tested by `if (!restore (file = dumpFile))`,
\* src/runParameterSweep.sh:492), or ends the process itself on a damaged file.
restore ==
  /\ pc = "restore"
  /\ stages' = Append(stages, "restore")
  /\ \/ \E s \in Snapshots :
          /\ restore_result' = "ok"
          /\ grid' = [leaves |-> Leaves, X0 |-> Rat(0), Y0 |-> SnapY0(s),
                      Delta |-> SnapDelta(s)]
          /\ f' = [c \in Cells |-> SnapF(s, c)]
          /\ u' = [x |-> [c \in Cells |-> SnapUx(s, c)],
                   y |-> [c \in Cells |-> SnapUy(s, c)]]
          /\ D2c' = [c \in Cells |-> Unset]
          /\ vel' = [c \in Cells |-> Unset]
          /\ pc' = AfterRestore("ok")
          /\ UNCHANGED <<status, ferr>>
     \/ /\ restore_result' = "false"
        /\ pc' = AfterRestore("false")
        /\ UNCHANGED <<status, ferr, grid, f, u, D2c, vel>>
     \/ /\ restore_result' = "exit"
        /\ ferr' = Append(ferr, Diag("restore(): error: expecting header"))
        /\ pc' = "done"
        /\ status' = "exit1"
        /\ UNCHANGED <<grid, f, u, D2c, vel>>
  /\ UNCHANGED sweepVars
  /\ UNCHANGED <<argv, AXI, twin, cleanup_calls, accesses, cfg, field_list, field_buffer, i, j, fp_state, calls>>

(* ---------------------------- compute kernels -------------------------- *)

Half == <<1, 2>>
\* the secondary-phase viscosity ratio 2e-2, line 296
MuRatio == <<2, 100>>

Nb(c, dx, dy) == <<c[1] + dx, c[2] + dy>>
\* y of the centre of cell c
CellY(c) == RAdd(grid.Y0, RMul(RAdd(Rat(c[2]), Half), grid.Delta))
TwoDelta == RMul(Rat(2), grid.Delta)

\* y > 1e-10, line 286.  Every rational of the model has a denominator below
\* 2^31 < 1e10, so a positive one exceeds 1e-10.
AboveAxis(y) == y[1] > 0

D11(c) == RDiv(RSub(u.y[Nb(c, 0, 1)], u.y[Nb(c, 0, -1)]), TwoDelta)
D22(c) == IF AboveAxis(CellY(c)) THEN RDiv(u.y[c], CellY(c)) ELSE Rat(0)
D33(c) == RDiv(RSub(u.x[Nb(c, 1, 0)], u.x[Nb(c, -1, 0)]), TwoDelta)
D13(c) ==
  RMul(Half,
       RDiv(RSub(RAdd(RSub(u.y[Nb(c, 1, 0)], u.y[Nb(c, -1, 0)]), u.x[Nb(c, 0, 1)]),
                 u.x[Nb(c, 0, -1)]),
            TwoDelta))
\* the second invariant with D33 left out of the axisymmetric sum
D2_AxiNoD33(c) ==
  IF AXI = 1
    THEN RAdd(RAdd(sq(D11(c)), sq(D22(c))), RMul(Rat(2), sq(D13(c))))
    ELSE RAdd(RAdd(sq(D11(c)), sq(D33(c))), RMul(Rat(2), sq(D13(c))))
\* lines 291-295
D2(c) ==
  IF AXI = 1
    THEN RAdd(RAdd(RAdd(sq(D11(c)), sq(D22(c))), sq(D33(c))), RMul(Rat(2), sq(D13(c))))
    ELSE RAdd(RAdd(sq(D11(c)), sq(D33(c))), RMul(Rat(2), sq(D13(c))))
\* line 296
mu_r(c) == RAdd(f[c], RMul(RSub(Rat(1), f[c]), MuRatio))

\* the kernel without the test of line 298
D2cValue_NoFloor(c) == log10(RMul(mu_r(c), D2(c)))

\* lines 297-301: the value compute_D2c_field leaves in target[] for cell c
D2cValue(c) ==
  LET t == RMul(mu_r(c), D2(c))
  IN  IF RLt(Rat(0), t) THEN log10(t) ELSE RatVal(Rat(-10))

\* the kernel without the square root
VelValue_NoSqrt(c) == RatVal(RAdd(sq(u.x[c]), sq(u.y[c])))
\* line 317
VelValue(c) == sqrt(RAdd(sq(u.x[c]), sq(u.y[c])))

\* compute_fields, line 199: foreach() over the leaves.  Without a restored
\* mesh (restore returned false) the traversal runs over a grid that was never
\* set up: the process is killed, or finds no cell.
compute_D2c_field ==
  /\ pc = "compute_D2c_field"
  /\ stages' = Append(stages, "compute_D2c_field")
  /\ \/ /\ D2c' = [c \in DOMAIN D2c |-> IF c \in grid.leaves THEN D2cValue(c) ELSE D2c[c]]
        /\ pc' = "compute_velocity_field"
        /\ status' = status
     \/ /\ restore_result # "ok"
        /\ D2c' = D2c
        /\ pc' = "done"
        /\ status' = "signal"
  /\ UNCHANGED sweepVars
  /\ UNCHANGED <<argv, AXI, twin, cleanup_calls, accesses, cfg, field_list, grid, f, u, vel, restore_result,
                 field_buffer, i, j, ferr, fp_state, calls>>

\* the kernel normalising u in place while it computes the magnitude
compute_velocity_field_InPlace ==
  /\ pc = "compute_velocity_field"
  /\ stages' = Append(stages, "compute_velocity_field")
  /\ vel' = [c \in DOMAIN vel |-> IF c \in grid.leaves THEN VelValue(c) ELSE vel[c]]
  /\ u' = [u EXCEPT !.x = [c \in DOMAIN u.x |-> IF c \in grid.leaves THEN sq(u.x[c]) ELSE u.x[c]]]
  /\ pc' = "allocate_field_buffer"
  /\ UNCHANGED sweepVars
  /\ UNCHANGED <<argv, AXI, twin, cleanup_calls, accesses, status, cfg, field_list, grid, f, D2c, restore_result,
                 field_buffer, i, j, ferr, fp_state, calls>>

\* compute_fields, line 200
compute_velocity_field ==
  /\ pc = "compute_velocity_field"
  /\ stages' = Append(stages, "compute_velocity_field")
  /\ vel' = [c \in DOMAIN vel |-> IF c \in grid.leaves THEN VelValue(c) ELSE vel[c]]
  /\ pc' = "allocate_field_buffer"
  /\ UNCHANGED sweepVars
  /\ UNCHANGED <<argv, AXI, twin, cleanup_calls, accesses, status, cfg, field_list, grid, f, u, D2c, restore_result,
                 field_buffer, i, j, ferr, fp_state, calls>>

(* ------------------------------ the buffer ----------------------------- *)

\* main, lines 113-115: matrix_new (nx, ny + 1, registered_fields*sizeof(double)).
\* matrix_new does not test what malloc returns; when the memory is not there
\* the first store through the null pointer kills the process.
allocate_field_buffer ==
  /\ pc = "allocate_field_buffer"
  /\ stages' = Append(stages, "allocate_field_buffer")
  /\ \/ /\ field_buffer' = [state |-> "allocated", rows |-> cfg.nx,
                            cols |-> (cfg.ny + 1) * list_len(field_list),
                            data |-> NoField]
        /\ pc' = "sample_fields"
        /\ status' = status
     \/ /\ field_buffer' = field_buffer
        /\ pc' = "done"
        /\ status' = "signal"
  /\ i' = 0
  /\ j' = 0
  /\ UNCHANGED sweepVars
  /\ UNCHANGED <<argv, AXI, twin, cleanup_calls, accesses, cfg, field_list, grid, f, u, D2c, vel, restore_result,
                 ferr, fp_state, calls>>

(* ------------------------- sampling and writing ------------------------ *)

\* node-centred x: Deltax*i + xmin
CellX_Node(c, ii) == RAdd(RMul(c.Deltax, Rat(ii)), c.xmin)
\* Deltax*(i + 1./2) + xmin, lines 221 and 241
CellX(c, ii) == RAdd(RMul(c.Deltax, RAdd(Rat(ii), Half)), c.xmin)
\* Deltay*(j + 1./2) + ymin, lines 223 and 243
CellYOut(c, jj) == RAdd(RMul(c.Deltay, RAdd(Rat(jj), Half)), c.ymin)

\* the index j + k, without the stride registered_fields
Slot_NoStride(F, jj, k) == jj + k
\* the index registered_fields*j + k of the k-th field (k from 0), lines 226, 248
Slot(F, jj, k) == F * jj + k

FieldOf(s) == IF s = "D2c" THEN D2c ELSE vel

\* The leaf holding the point (x, y), <<>> when there is none
Locate(x, y) ==
  IF IsBig(x) \/ IsBig(y) THEN <<>>
  ELSE LET c == <<RFloor(RDiv(RSub(x, grid.X0), grid.Delta)),
                  RFloor(RDiv(RSub(y, grid.Y0), grid.Delta))>>
       IN  IF c \in grid.leaves THEN c ELSE <<>>

\* interpolate (s, x, y): the value of scalar s at the point, nodata off the
\* mesh.  The value is the one of the leaf holding the point.
interpolate(s, x, y) ==
  IF Locate(x, y) = <<>> THEN nodata ELSE FieldOf(s)[Locate(x, y)]

\* the inner loop written j <= ny
NextIJ_OffByOne(ii, jj, ny) == IF jj + 1 <= ny THEN <<ii, jj + 1>> ELSE <<ii + 1, 0>>
\* The loop counters after the body for (i, j): j runs inside i
NextIJ(ii, jj, ny) == IF jj + 1 < ny THEN <<ii, jj + 1>> ELSE <<ii + 1, 0>>

\* sample_fields, the loop body for the current (i, j), lines 220-229
sample_fields ==
  /\ pc = "sample_fields"
  /\ i < cfg.nx
  /\ i < MaxNx
  /\ LET F == list_len(field_list)
         x == CellX(cfg, i)
         y == CellYOut(cfg, j)
         new == {<<i, Slot(F, j, k)>> : k \in 0..(F - 1)}
         nxt == NextIJ(i, j, cfg.ny)
     IN  /\ field_buffer' =
               [field_buffer EXCEPT !.data =
                  [p \in DOMAIN field_buffer.data \cup new |->
                     IF p \in new
                       THEN LET last == CHOOSE k \in 0..(F - 1) :
                                          /\ p = <<i, Slot(F, j, k)>>
                                          /\ \A m \in (k + 1)..(F - 1) : p # <<i, Slot(F, j, m)>>
                            IN  interpolate(field_list[last + 1], x, y)
                       ELSE field_buffer.data[p]]]
         /\ calls' = calls \o [k \in 1..F |->
                                 [i |-> i, j |-> j, k |-> k - 1, s |-> field_list[k],
                                  x |-> x, y |-> y,
                                  value |-> interpolate(field_list[k], x, y)]]
         /\ accesses' = accesses \o [k \in 1..F |->
                                       [op |-> "store", i |-> i, idx |-> Slot(F, j, k - 1)]]
         /\ stages' = IF i = 0 /\ j = 0 THEN Append(stages, "sample_fields") ELSE stages
         /\ IF nxt[1] < cfg.nx
              THEN i' = nxt[1] /\ j' = nxt[2] /\ pc' = pc
              ELSE i' = 0 /\ j' = 0 /\ pc' = "write_fields"
  /\ UNCHANGED sweepVars
  /\ UNCHANGED <<argv, AXI, twin, cleanup_calls, status, cfg, field_list, grid, f, u, D2c, vel,
                 restore_result, ferr, fp_state>>

\* the element field_buffer[ii][idx]
BufferAt(ii, idx) ==
  IF <<ii, idx>> \in DOMAIN field_buffer.data THEN field_buffer.data[<<ii, idx>>]
  ELSE Unset

\* The values of the line write_fields prints for (ii, jj), lines 244-249
RowValues(ii, jj) ==
  LET F == list_len(field_list)
  IN  <<FmtG(RatVal(CellX(cfg, ii))), FmtG(RatVal(CellYOut(cfg, jj)))>>
      \o [k \in 1..F |-> FmtG(BufferAt(ii, Slot(F, jj, k - 1)))]

\* write_fields, the loop body for the current (i, j), lines 240-251
write_fields ==
  /\ pc = "write_fields"
  /\ i < cfg.nx
  /\ i < MaxNx
  /\ LET nxt == NextIJ(i, j, cfg.ny)
         F == list_len(field_list)
     IN  /\ ferr' = Append(ferr, Row(i, j, RowValues(i, j)))
         /\ accesses' = accesses \o [k \in 1..F |->
                                       [op |-> "load", i |-> i, idx |-> Slot(F, j, k - 1)]]
         /\ stages' = IF i = 0 /\ j = 0 THEN Append(stages, "write_fields") ELSE stages
         /\ IF nxt[1] < cfg.nx
              THEN i' = nxt[1] /\ j' = nxt[2] /\ pc' = pc
              ELSE i' = 0 /\ j' = 0 /\ pc' = "cleanup_output"
  /\ UNCHANGED sweepVars
  /\ UNCHANGED <<argv, AXI, twin, cleanup_calls, status, cfg, field_list, grid, f, u, D2c, vel,
                 restore_result, field_buffer, fp_state, calls>>

\* cleanup releasing the buffer before it flushes and closes the channel
CleanupCalls_FreeFirst == <<"matrix_free", "fflush", "fclose">>
\* The calls of cleanup_output, lines 256-258
CleanupCalls == <<"fflush", "fclose", "matrix_free">>

\* main, lines 120-121: fflush, fclose, matrix_free, then the end of main,
\* which returns 0
cleanup_output ==
  /\ pc = "cleanup_output"
  /\ stages' = Append(stages, "cleanup_output")
  /\ fp_state' = "closed"
  /\ field_buffer' = [field_buffer EXCEPT !.state = "freed"]
  /\ pc' = "done"
  /\ cleanup_calls' = cleanup_calls \o CleanupCalls
  /\ status' = "exit0"
  /\ UNCHANGED sweepVars
  /\ UNCHANGED <<argv, AXI, twin, accesses, cfg, field_list, grid, f, u, D2c, vel, restore_result,
                 i, j, ferr, calls>>

Next ==
  \/ parse_arguments
  \/ configure_grid
  \/ register_fields
  \/ restore
  \/ compute_D2c_field
  \/ compute_velocity_field
  \/ allocate_field_buffer
  \/ sample_fields
  \/ write_fields
  \/ cleanup_output

Spec == Init /\ [][Next]_vars

(* ------------- the same input on the build of the other geometry -------- *)

\* What a finished run leaves to compare the next run with
RunRecord ==
  [ran |-> TRUE, rows |-> Rows, cfg |-> cfg, restore_result |-> restore_result,
   grid |-> grid, f |-> f, u |-> u]

\* The command line given again to the build made with -DAXI=0 (lines 58-60),
\* once the run of the AXI=1 build has returned 0: a new process, with every
\* variable of the program at its initial value.
rerun_other_geometry ==
  /\ pc = "done"
  /\ status = "exit0"
  /\ AXI = 1
  /\ twin = NoTwin
  /\ twin' = RunRecord
  /\ AXI' = 0
  /\ pc' = "parse_arguments"
  /\ status' = "running"
  /\ cfg' = NoConfig
  /\ field_list' = <<>>
  /\ grid' = NoGrid
  /\ f' = NoField
  /\ u' = [x |-> NoField, y |-> NoField]
  /\ D2c' = NoField
  /\ vel' = NoField
  /\ restore_result' = "none"
  /\ field_buffer' = [state |-> "none", rows |-> 0, cols |-> 0, data |-> NoField]
  /\ i' = 0
  /\ j' = 0
  /\ ferr' = <<>>
  /\ fp_state' = "open"
  /\ calls' = <<>>
  /\ stages' = <<>>
  /\ accesses' = <<>>
  /\ cleanup_calls' = <<>>
  /\ UNCHANGED sweepVars
  /\ UNCHANGED argv

NextTwin ==
  \/ Next
  \/ rerun_other_geometry

\* A run of the AXI=1 build followed by a run of the AXI=0 build on the same
\* command line
SpecTwin == Init /\ [][NextTwin]_vars

(* ====================== runParameterSweep.sh =========================== *)
(* The sweep runner and the functions of src-local/sweep_utils.sh it calls. *)
(* A parameter file is the sequence of its key=value lines; a case file of  *)
(* SWEEP_TEMP_DIR is named by the number n of case_<n>.params.  The values  *)
(* of a file are texts: a case number is written in decimal by ToString.    *)

\* getData not started: the state of its variables while the sweep runs
GetDataIdle ==
  /\ argv = <<>>
  /\ AXI = 1
  /\ pc = "idle"
  /\ status = "running"
  /\ cfg = NoConfig
  /\ field_list = <<>>
  /\ grid = NoGrid
  /\ f = NoField
  /\ u = [x |-> NoField, y |-> NoField]
  /\ D2c = NoField
  /\ vel = NoField
  /\ restore_result = "none"
  /\ field_buffer = [state |-> "none", rows |-> 0, cols |-> 0, data |-> NoField]
  /\ i = 0
  /\ j = 0
  /\ ferr = <<>>
  /\ fp_state = "open"
  /\ calls = <<>>
  /\ stages = <<>>
  /\ accesses = <<>>
  /\ twin = NoTwin
  /\ cleanup_calls = <<>>

\* The command lines given to runParameterSweep.sh
SweepCommandLines ==
  { <<>>, <<"--dry-run">>, <<"-n", "custom.params">>, <<"--verbose">>,
    <<"--stage1-only">>, <<"--stage2-only">>, <<"--stage2-only", "--mpi">>,
    <<"--stage1-only", "--stage2-only">>, <<"--mpi", "--stage1-only">>,
    <<"--dry-run", "--help">>, <<"--dry-run", "--bogus">> }

Line(k, v) == [k |-> k, v |-> v]

\* The SWEEP_* lines of a sweep file: the name after SWEEP_ and the text after =
SweepLines ==
  { <<Line("Oh", "0.01,0.02"), Line("Bond", "0.001,0.002  # Bond")>>,
    <<Line("Oh", "0.01,0.02,0.05")>>,
    <<Line("Oh", "0.01,0.02,")>>,
    <<Line("zWall", "")>>,
    <<Line("CaseNo", "7,8")>>,
    <<>> }

\* CASE_START and CASE_END of a sweep file
CaseRanges ==
  { <<"1000", "1003">>, <<"1000", "1001">>, <<"999", "1003">>, <<"1000", "999">>,
    <<"9999", "9999">>, <<"9998", "10000">>, <<"", "1003">> }

SweepFiles ==
  { [exists |-> TRUE, BASE_CONFIG |-> b, CASE_START |-> r[1], CASE_END |-> r[2],
     sweeps |-> s] :
      b \in {"default.params", ""}, r \in CaseRanges, s \in SweepLines }
  \cup { NoSweepFile }

\* The base parameter file: with a CaseNo line and an Oh line, without them, or
\* not there
BaseConfigs ==
  { [exists |-> TRUE,
     lines |-> <<Line("CaseNo", "1000"), Line("Oh", "1e-2"), Line("Bond", "1e-3")>>],
    [exists |-> TRUE, lines |-> <<Line("Bond", "1e-3"), Line("tmax", "1")>>],
    [exists |-> FALSE, lines |-> <<>>] }

\* the value of a decimal text, as [ -lt ] and $(( )) read it
Number(text) ==
  CASE text = "7" -> 7
    [] text = "8" -> 8
    [] text = "999" -> 999
    [] text = "1000" -> 1000
    [] text = "1001" -> 1001
    [] text = "1002" -> 1002
    [] text = "1003" -> 1003
    [] text = "9998" -> 9998
    [] text = "9999" -> 9999
    [] text = "10000" -> 10000
    [] OTHER -> 0

\* A line echoed by the script: to stdout ("out") or stderr ("err").  n, var
\* and val are the values put into the text.
Echo(text) == [stream |-> "out", text |-> text, n |-> 0, var |-> "", val |-> ""]
EchoErr(text) == [stream |-> "err", text |-> text, n |-> 0, var |-> "", val |-> ""]
EchoN(text, n) == [stream |-> "out", text |-> text, n |-> n, var |-> "", val |-> ""]
EchoErrN(text, n) == [stream |-> "err", text |-> text, n |-> n, var |-> "", val |-> ""]
EchoVar(var, val) == [stream |-> "out", text |-> "  var = val", n |-> 0, var |-> var, val |-> val]

SweepInit ==
  /\ GetDataIdle
  /\ sweep_argv \in SweepCommandLines
  /\ sweep_file \in SweepFiles
  /\ base_config \in BaseConfigs
  /\ sweep_pc = "parse_options"
  /\ sweep_status = "running"
  /\ flags = NoFlags
  /\ SWEEP_VARS = <<>>
  /\ SWEEP_VALUES = <<>>
  /\ SWEEP_CASE_NUM = 0
  /\ SWEEP_COMBINATION_COUNT = 0
  /\ SWEEP_CASE_FILES = <<>>
  /\ temp_dir = [n \in {} |-> <<>>]
  /\ sweep_out = <<>>
  /\ invocations = <<>>
  /\ case_idx = 0

(* ------------------------ options and validation ----------------------- *)

\* The option loop of lines 107-160 over the arguments args with the flags fl:
\* the flags at its end, the arguments left, and how it ended ("break", or
\* "help", or "unknown" for an option it does not know)
RECURSIVE ParseOptions(_, _)
ParseOptions(args, fl) ==
  IF args = <<>> THEN [flags |-> fl, rest |-> args, end |-> "break"]
  ELSE LET a == Head(args)
       IN  CASE a \in {"-n", "--dry-run"} -> ParseOptions(Tail(args), [fl EXCEPT !.DRY_RUN = 1])
             [] a \in {"-v", "--verbose"} -> ParseOptions(Tail(args), [fl EXCEPT !.VERBOSE = 1])
             [] a = "--stage1-only" -> ParseOptions(Tail(args), [fl EXCEPT !.STAGE1_ONLY = 1])
             [] a = "--stage2-only" -> ParseOptions(Tail(args), [fl EXCEPT !.STAGE2_ONLY = 1])
             [] a = "--mpi" -> ParseOptions(Tail(args), [fl EXCEPT !.MPI_ENABLED = 1])
             [] a \in {"-h", "--help"} -> [flags |-> fl, rest |-> Tail(args), end |-> "help"]
             [] a \in {"--bogus"} -> [flags |-> fl, rest |-> args, end |-> "unknown"]
             [] OTHER -> [flags |-> fl, rest |-> args, end |-> "break"]

\* The error of lines 166-192 for the flags fl, "" when there is none
OptionError(fl) ==
  IF fl.STAGE1_ONLY = 1 /\ fl.STAGE2_ONLY = 1
    THEN "ERROR: Cannot use both --stage1-only and --stage2-only"
  ELSE IF fl.MPI_ENABLED = 1 /\ fl.STAGE1_ONLY = 1
    THEN "ERROR: --mpi is only valid for Stage 2 (use --stage2-only or default both-stages mode)"
  ELSE IF ~sweep_file.exists THEN "ERROR: Sweep file not found"
  ELSE ""

\* The banner of lines 194-213
Banner(fl) ==
  <<Echo("Bursting Bubble - Parameter Sweep")>>
  \o (IF fl.DRY_RUN = 1 THEN <<Echo("Mode: Dry run (no execution)")>> ELSE <<>>)
  \o <<Echo(IF fl.STAGE1_ONLY = 1 THEN "Stages: Stage 1 only (generate restart files)"
            ELSE IF fl.STAGE2_ONLY = 1 THEN "Stages: Stage 2 only (full simulation)"
            ELSE "Stages: Stage 1 + Stage 2 per case")>>

\* lines 97-213: the options, their validation, the sweep file, the banner
parse_options ==
  /\ sweep_pc = "parse_options"
  /\ LET r == ParseOptions(sweep_argv, NoFlags)
     IN  /\ flags' = r.flags
         /\ IF r.end = "help"
              THEN /\ sweep_out' = Append(sweep_out, Echo("Usage: $0 [OPTIONS] [sweep_file]"))
                   /\ sweep_pc' = "done"
                   /\ sweep_status' = "exit0"
            ELSE IF r.end = "unknown"
              THEN /\ sweep_out' = sweep_out \o <<EchoErr("ERROR: Unknown option"),
                                                  Echo("Usage: $0 [OPTIONS] [sweep_file]")>>
                   /\ sweep_pc' = "done"
                   /\ sweep_status' = "exit1"
            ELSE IF OptionError(r.flags) # ""
              THEN /\ sweep_out' = Append(sweep_out, EchoErr(OptionError(r.flags)))
                   /\ sweep_pc' = "done"
                   /\ sweep_status' = "exit1"
            ELSE /\ sweep_out' = sweep_out \o Banner(r.flags)
                 /\ sweep_pc' = "parse_sweep_configuration"
                 /\ sweep_status' = sweep_status
  /\ UNCHANGED getDataVars
  /\ UNCHANGED <<sweep_argv, sweep_file, base_config, SWEEP_VARS, SWEEP_VALUES,
                 SWEEP_CASE_NUM, SWEEP_COMBINATION_COUNT, SWEEP_CASE_FILES, temp_dir,
                 invocations, case_idx>>

\* validate_case_range: the error it echoes, "" when it returns 0
validate_case_range(case_start, case_end) ==
  IF case_start = "" \/ case_end = ""
    THEN "ERROR: CASE_START and CASE_END must be defined"
  ELSE IF Number(case_start) < 1000 \/ Number(case_start) > 9999
    THEN "ERROR: CASE_START must be 4-digit (1000-9999), got: $case_start"
  ELSE IF Number(case_end) < Number(case_start) \/ Number(case_end) > 9999
    THEN "ERROR: CASE_END must be >= CASE_START and <= 9999, got: $case_end"
  ELSE ""

\* The error of lines 220-234, "" when there is none
ConfigurationError ==
  IF sweep_file.BASE_CONFIG = "" THEN "ERROR: BASE_CONFIG not defined in sweep file"
  ELSE IF ~base_config.exists THEN "ERROR: Base configuration file not found"
  ELSE validate_case_range(sweep_file.CASE_START, sweep_file.CASE_END)

\* lines 220-238: source the sweep file, BASE_CONFIG, validate_case_range
parse_sweep_configuration ==
  /\ sweep_pc = "parse_sweep_configuration"
  /\ IF ConfigurationError # ""
       THEN /\ sweep_out' = Append(sweep_out, EchoErr(ConfigurationError))
            /\ sweep_pc' = "done"
            /\ sweep_status' = "exit1"
       ELSE /\ sweep_out' = Append(sweep_out, Echo("Case number range: $CASE_START to $CASE_END"))
            /\ sweep_pc' = "extract_sweep_variables"
            /\ sweep_status' = sweep_status
  /\ UNCHANGED getDataVars
  /\ UNCHANGED <<sweep_argv, sweep_file, base_config, flags, SWEEP_VARS, SWEEP_VALUES,
                 SWEEP_CASE_NUM, SWEEP_COMBINATION_COUNT, SWEEP_CASE_FILES, temp_dir,
                 invocations, case_idx>>

\* value=$(echo "$value" | sed 's/#.*//' | xargs): the text without an inline
\* comment and without blanks at its ends
CleanValue(text) ==
  CASE text = "0.001,0.002  # Bond" -> "0.001,0.002"
    [] OTHER -> text

\* lines 243-245: extract_sweep_variables, print_sweep_variables
extract_sweep_variables ==
  /\ sweep_pc = "extract_sweep_variables"
  /\ SWEEP_VARS' = [d \in DOMAIN sweep_file.sweeps |-> sweep_file.sweeps[d].k]
  /\ SWEEP_VALUES' = [d \in DOMAIN sweep_file.sweeps |-> CleanValue(sweep_file.sweeps[d].v)]
  /\ IF sweep_file.sweeps = <<>>
       THEN /\ sweep_out' = Append(sweep_out, EchoErr("ERROR: No SWEEP_* variables found"))
            /\ sweep_pc' = "done"
            /\ sweep_status' = "exit1"
       ELSE /\ sweep_out' = sweep_out \o <<Echo("Sweep variables:")>>
                              \o [d \in DOMAIN sweep_file.sweeps |->
                                    EchoVar(SWEEP_VARS'[d], SWEEP_VALUES'[d])]
            /\ sweep_pc' = "generate_sweep_combinations"
            /\ sweep_status' = sweep_status
  /\ UNCHANGED getDataVars
  /\ UNCHANGED <<sweep_argv, sweep_file, base_config, flags,
                 SWEEP_CASE_NUM, SWEEP_COMBINATION_COUNT, SWEEP_CASE_FILES, temp_dir,
                 invocations, case_idx>>

(* ----------------------- generate_sweep_combinations ------------------- *)

\* IFS=',' read -r -a value_array <<< "$values": the fields of the text between
\* the commas; a comma at the end opens no field, the empty text has none
read_array(text) ==
  CASE text = "0.01,0.02" -> <<"0.01", "0.02">>
    [] text = "0.001,0.002" -> <<"0.001", "0.002">>
    [] text = "0.01,0.02,0.05" -> <<"0.01", "0.02", "0.05">>
    [] text = "0.01,0.02," -> <<"0.01", "0.02">>
    [] text = "7,8" -> <<"7", "8">>
    [] text = "" -> <<>>
    [] OTHER -> <<text>>

RECURSIVE Concat(_)
Concat(seqs) == IF seqs = <<>> THEN <<>> ELSE Head(seqs) \o Concat(Tail(seqs))

\* _generate_combinations_recursive, lines 216-273: the current_values of the
\* base cases it reaches from depth on, in the order it reaches them (depth
\* counts the variables from 1)
RECURSIVE Combinations(_, _)
Combinations(values, depth) ==
  IF depth > Len(values) THEN << <<>> >>
  ELSE LET arr == read_array(values[depth])
           rest == Combinations(values, depth + 1)
       IN  Concat([a \in DOMAIN arr |-> [r \in DOMAIN rest |-> <<arr[a]>> \o rest[r]]])

\* grep -q "^key=" and sed "s|^key=.*|key=val|", else echo "key=val" >>:
\* every line of the key gets the value, or a line is added at the end
Override(lines, key, val) ==
  IF \E n \in DOMAIN lines : lines[n].k = key
    THEN [n \in DOMAIN lines |-> IF lines[n].k = key THEN Line(key, val) ELSE lines[n]]
    ELSE Append(lines, Line(key, val))

\* the loop of lines 237-247 from variable d on
RECURSIVE OverrideSweep(_, _, _)
OverrideSweep(lines, d, current_values) ==
  IF d > Len(SWEEP_VARS) THEN lines
  ELSE OverrideSweep(Override(lines, SWEEP_VARS[d], current_values[d]), d + 1,
                     current_values)

\* the case file written for the case number num and current_values, lines 223-247
CaseFile(num, current_values) ==
  OverrideSweep(Override(base_config.lines, "CaseNo", ToString(num)), 1, current_values)

\* VERBOSE_FLAG, lines 253-256
VERBOSE_FLAG == IF flags.DRY_RUN = 1 \/ flags.VERBOSE = 1 THEN 1 ELSE 0

\* lines 250-257 and 195-213: setup_sweep_temp_dir, then the checks and the
\* counters of generate_sweep_combinations
generate_sweep_combinations ==
  /\ sweep_pc = "generate_sweep_combinations"
  /\ SWEEP_CASE_NUM' = IF sweep_file.CASE_START = "" THEN 1000
                       ELSE Number(sweep_file.CASE_START)
  /\ SWEEP_COMBINATION_COUNT' = 0
  /\ SWEEP_CASE_FILES' = <<>>
  /\ sweep_pc' = "generate_combinations_recursive"
  /\ UNCHANGED getDataVars
  /\ UNCHANGED <<sweep_argv, sweep_file, base_config, sweep_status, flags, SWEEP_VARS,
                 SWEEP_VALUES, temp_dir, sweep_out, invocations, case_idx>>

\* One base case of _generate_combinations_recursive, lines 221-263: the next
\* combination gets its case file
generate_combinations_recursive ==
  /\ sweep_pc = "generate_combinations_recursive"
  /\ SWEEP_COMBINATION_COUNT < Len(Combinations(SWEEP_VALUES, 1))
  /\ LET current_values == Combinations(SWEEP_VALUES, 1)[SWEEP_COMBINATION_COUNT + 1]
         case_file == SWEEP_CASE_NUM
     IN  /\ temp_dir' = [n \in DOMAIN temp_dir \cup {case_file} |->
                           IF n = case_file THEN CaseFile(SWEEP_CASE_NUM, current_values)
                           ELSE temp_dir[n]]
         /\ SWEEP_CASE_FILES' = Append(SWEEP_CASE_FILES, case_file)
         /\ sweep_out' = IF VERBOSE_FLAG = 1
                           THEN sweep_out \o <<EchoN("Case $SWEEP_CASE_NUM:", SWEEP_CASE_NUM)>>
                                  \o [d \in DOMAIN SWEEP_VARS |->
                                        EchoVar(SWEEP_VARS[d], current_values[d])]
                           ELSE sweep_out
  /\ SWEEP_COMBINATION_COUNT' = SWEEP_COMBINATION_COUNT + 1
  /\ SWEEP_CASE_NUM' = SWEEP_CASE_NUM + 1
  /\ UNCHANGED getDataVars
  /\ UNCHANGED <<sweep_argv, sweep_file, base_config, sweep_pc, sweep_status, flags,
                 SWEEP_VARS, SWEEP_VALUES, invocations, case_idx>>

(* ------------------- the count, the dry run, the cases ------------------ *)

\* trap 'rm -rf "$SWEEP_TEMP_DIR"' EXIT: the directory after the script ended
Removed == [n \in {} |-> <<>>]

\* a dry run that goes on to the simulations
DryRunExit_Never(fl) == FALSE
\* the test of line 267
DryRunExit(fl) == fl.DRY_RUN = 1

\* The part of the loop of lines 306-333 that runs for position idx of
\* SWEEP_CASE_FILES: the first stage of the case, or the end of the loop
LoopEntry(idx) ==
  IF idx > Len(SWEEP_CASE_FILES) THEN "complete"
  ELSE IF flags.STAGE2_ONLY = 1 THEN "stage2"
  ELSE "stage1"

\* lines 259-270 and 275-304: the count echoed and validated by
\* validate_combination_count, the exit of a dry run
validate_combination_count ==
  /\ sweep_pc = "generate_combinations_recursive"
  /\ SWEEP_COMBINATION_COUNT = Len(Combinations(SWEEP_VALUES, 1))
  /\ LET expected_count == Number(sweep_file.CASE_END) - Number(sweep_file.CASE_START) + 1
         generated == <<EchoN("Generated $SWEEP_COMBINATION_COUNT parameter combinations",
                              SWEEP_COMBINATION_COUNT)>>
         warning == IF SWEEP_COMBINATION_COUNT # expected_count
                      THEN <<EchoErrN("WARNING: Generated $SWEEP_COMBINATION_COUNT combinations, but CASE_END suggests $expected_count",
                                      expected_count)>>
                      ELSE <<>>
     IN  IF SWEEP_COMBINATION_COUNT > expected_count
           THEN /\ sweep_out' = sweep_out \o generated \o warning
                                  \o <<EchoErrN("ERROR: Too many combinations", SWEEP_COMBINATION_COUNT)>>
                /\ sweep_pc' = "done"
                /\ sweep_status' = "exit1"
                /\ temp_dir' = Removed
                /\ case_idx' = case_idx
         ELSE IF DryRunExit(flags)
           THEN /\ sweep_out' = sweep_out \o generated \o warning
                                  \o <<Echo("Dry run complete. No simulations executed.")>>
                /\ sweep_pc' = "done"
                /\ sweep_status' = "exit0"
                /\ temp_dir' = Removed
                /\ case_idx' = case_idx
         ELSE /\ sweep_out' = sweep_out \o generated \o warning
                                \o <<EchoN("Running $SWEEP_COMBINATION_COUNT simulations sequentially",
                                           SWEEP_COMBINATION_COUNT)>>
              /\ sweep_pc' = LoopEntry(1)
              /\ sweep_status' = sweep_status
              /\ temp_dir' = temp_dir
              /\ case_idx' = 1
  /\ UNCHANGED getDataVars
  /\ UNCHANGED <<sweep_argv, sweep_file, base_config, flags, SWEEP_VARS, SWEEP_VALUES,
                 SWEEP_CASE_NUM, SWEEP_COMBINATION_COUNT, SWEEP_CASE_FILES, invocations>>

\* case_no=$(grep "^CaseNo=" "$param_file" | cut -d'=' -f2), line 307
case_no(param_file) ==
  LET lines == temp_dir[param_file]
      n == CHOOSE n \in DOMAIN lines : lines[n].k = "CaseNo"
  IN  lines[n].v

\* A call ./runSimulation.sh stage ... "$param_file" and the status it returns
Invocation(stage, param_file, parallel, result) ==
  [stage |-> stage, param_file |-> param_file, CaseNo |-> case_no(param_file),
   parallel |-> parallel, result |-> result]

\* PARALLEL_FLAGS, lines 292-297
PARALLEL_FLAGS == IF flags.MPI_ENABLED = 1 THEN "--mpi $MPI_CORES" ELSE ""

\* a shell that goes on after a command has failed
ErrExit_Off(result) == FALSE
\* set -e, line 5: a simple command that returns non-zero ends the script
ErrExit(result) == result # "exit0"

\* lines 307-315 and 322-323: Stage 1 of the case at case_idx.  set -e ends the
\* script with the status of a runSimulation.sh that fails.
run_stage1 ==
  /\ sweep_pc = "stage1"
  /\ \E result \in {"exit0", "exit1"} :
       LET param_file == SWEEP_CASE_FILES[case_idx]
           parallel == IF flags.STAGE1_ONLY = 1 THEN PARALLEL_FLAGS ELSE ""
       IN  /\ invocations' = Append(invocations,
                                    Invocation("--stage1", param_file, parallel, result))
           /\ sweep_out' = sweep_out \o <<EchoVar("Processing Case", case_no(param_file)),
                                          Echo("Running Stage 1...")>>
           /\ IF ErrExit(result)
                THEN /\ sweep_pc' = "done"
                     /\ sweep_status' = result
                     /\ temp_dir' = Removed
                     /\ case_idx' = case_idx
              ELSE IF flags.STAGE1_ONLY = 1
                THEN /\ sweep_pc' = LoopEntry(case_idx + 1)
                     /\ sweep_status' = sweep_status
                     /\ temp_dir' = temp_dir
                     /\ case_idx' = case_idx + 1
              ELSE /\ sweep_pc' = "stage2"
                   /\ sweep_status' = sweep_status
                   /\ temp_dir' = temp_dir
                   /\ case_idx' = case_idx
  /\ UNCHANGED getDataVars
  /\ UNCHANGED <<sweep_argv, sweep_file, base_config, flags, SWEEP_VARS, SWEEP_VALUES,
                 SWEEP_CASE_NUM, SWEEP_COMBINATION_COUNT, SWEEP_CASE_FILES>>

\* lines 316-332: Stage 2 of the case at case_idx, then the next case
run_stage2 ==
  /\ sweep_pc = "stage2"
  /\ \E result \in {"exit0", "exit1"} :
       LET param_file == SWEEP_CASE_FILES[case_idx]
       IN  /\ invocations' = Append(invocations,
                                    Invocation("--stage2", param_file, PARALLEL_FLAGS, result))
           /\ sweep_out' = sweep_out
                             \o (IF flags.STAGE2_ONLY = 1
                                   THEN <<EchoVar("Processing Case", case_no(param_file))>>
                                   ELSE <<>>)
                             \o <<Echo("Running Stage 2...")>>
           /\ IF ErrExit(result)
                THEN /\ sweep_pc' = "done"
                     /\ sweep_status' = result
                     /\ temp_dir' = Removed
                     /\ case_idx' = case_idx
                ELSE /\ sweep_pc' = LoopEntry(case_idx + 1)
                     /\ sweep_status' = sweep_status
                     /\ temp_dir' = temp_dir
                     /\ case_idx' = case_idx + 1
  /\ UNCHANGED getDataVars
  /\ UNCHANGED <<sweep_argv, sweep_file, base_config, flags, SWEEP_VARS, SWEEP_VALUES,
                 SWEEP_CASE_NUM, SWEEP_COMBINATION_COUNT, SWEEP_CASE_FILES>>

\* lines 335-341: the summary, the end of the script
sweep_complete ==
  /\ sweep_pc = "complete"
  /\ sweep_out' = sweep_out \o <<Echo("Parameter Sweep Complete"),
                                 EchoN("Total cases: $SWEEP_COMBINATION_COUNT",
                                       SWEEP_COMBINATION_COUNT)>>
  /\ sweep_pc' = "done"
  /\ sweep_status' = "exit0"
  /\ temp_dir' = Removed
  /\ UNCHANGED getDataVars
  /\ UNCHANGED <<sweep_argv, sweep_file, base_config, flags, SWEEP_VARS, SWEEP_VALUES,
                 SWEEP_CASE_NUM, SWEEP_COMBINATION_COUNT, SWEEP_CASE_FILES, invocations,
                 case_idx>>

SweepNext ==
  \/ parse_options
  \/ parse_sweep_configuration
  \/ extract_sweep_variables
  \/ generate_sweep_combinations
  \/ generate_combinations_recursive
  \/ validate_combination_count
  \/ run_stage1
  \/ run_stage2
  \/ sweep_complete

\* One run of runParameterSweep.sh
SweepSpec == SweepInit /\ [][SweepNext]_vars

(* ======================== properties of the run ======================== *)

Called(fn) == \E n \in DOMAIN stages : stages[n] = fn
Timescalled(fn) == Cardinality({n \in DOMAIN stages : stages[n] = fn})

\* The bounds and ny the command line gives (six positional values)
ArgXmin == atof(argv[3])
ArgYmin == atof(argv[4])
ArgXmax == atof(argv[5])
ArgYmax == atof(argv[6])
ArgNy == atoi(argv[7])

\* A command line that parse_arguments has to reject
RejectedCommandLine ==
  \/ Len(argv) # 7
  \/ ArgNy <= 0
  \/ RLe(ArgXmax, ArgXmin)
  \/ RLe(ArgYmax, ArgYmin)

\* A validated input: six values, xmax > xmin, ymax > ymin, ny > 0
ValidatedInput ==
  /\ Len(argv) = 7
  /\ ArgNy > 0
  /\ RLt(ArgXmin, ArgXmax)
  /\ RLt(ArgYmin, ArgYmax)

\* C1: a command line that parse_arguments rejects (wrong count, ny <= 0,
\* xmax <= xmin or ymax <= ymin, whatever ny is) ends the run with exit status
\* 1, without a data row, and nothing after parse_arguments is called.
C1_RejectedArgumentsEndRun ==
  (pc # "parse_arguments" /\ RejectedCommandLine)
    => /\ pc = "done"
       /\ status = "exit1"
       /\ Rows = <<>>
       /\ stages = <<"parse_arguments">>
       /\ restore_result = "none"
       /\ field_buffer.state = "none"
       /\ calls = <<>>

\* C1 witness: a bounds violation with a positive ny has been rejected.
C1_Witness ==
  /\ pc = "done"
  /\ status = "exit1"
  /\ Len(argv) = 7
  /\ ArgNy > 0
  /\ RLe(ArgXmax, ArgXmin)

\* C2 (as claimed): after configure_grid on a validated input, Deltay is
\* (ymax-ymin)/ny, nx is floor((xmax-xmin)/Deltay) and, when nx > 0, Deltax is
\* (xmax-xmin)/nx with Deltax*nx the x-span; bounds (0,0,1,2) with ny = 4 give
\* Deltay = 1/2, nx = 2, Deltax = 1/2.
C2_GridFormulas ==
  (ValidatedInput /\ Called("configure_grid"))
    => LET xspan == RSub(ArgXmax, ArgXmin)
           dy == RDiv(RSub(ArgYmax, ArgYmin), Rat(ArgNy))
           q == RDiv(xspan, dy)
       IN  /\ cfg.Deltay = dy
           /\ ~IsBig(q)
           /\ cfg.nx = RFloor(q)
           /\ cfg.nx > 0 => /\ cfg.Deltax = RDiv(xspan, Rat(cfg.nx))
                            /\ RMul(cfg.Deltax, Rat(cfg.nx)) = xspan
           /\ argv = <<"getData", "snap", "0", "0", "1", "2", "4">>
                => /\ cfg.Deltay = <<1, 2>>
                   /\ cfg.nx = 2
                   /\ cfg.Deltax = <<1, 2>>

\* Whether main went past configure_grid
PastConfigureGrid == Called("register_fields") \/ pc = "register_fields"

\* C3: a validated input whose derived nx is <= 0 (x-span below Deltay) makes
\* configure_grid fail: exit status 1, no data row, the snapshot not restored;
\* and every run that goes past configure_grid has nx >= 1 and ny >= 1.
C3_NonPositiveNxRejected ==
  /\ (ValidatedInput /\ Called("configure_grid")
        /\ (cfg.nx <= 0 \/ RLt(RSub(ArgXmax, ArgXmin), cfg.Deltay)))
       => /\ cfg.nx <= 0
          /\ pc = "done"
          /\ status = "exit1"
          /\ Rows = <<>>
          /\ ~Called("restore")
          /\ restore_result = "none"
  /\ PastConfigureGrid => (cfg.nx >= 1 /\ cfg.ny >= 1)

\* C3 witness: configure_grid has rejected a validated input with nx = 0.
C3_Witness ==
  /\ ValidatedInput
  /\ stages = <<"parse_arguments", "configure_grid">>
  /\ cfg.nx = 0
  /\ status = "exit1"

\* Row n of the output in terms of the pair it was written for
RowPair(n) == <<Rows[n].i, Rows[n].j>>
PairBefore(p, q) == p[1] < q[1] \/ (p[1] = q[1] /\ p[2] < q[2])

\* C4: a successful run writes exactly nx*ny data rows, one for each pair
\* (i,j) with 0 <= i < nx and 0 <= j < ny, each pair once, and the row of
\* (i,j) comes before the row of (i',j') iff i < i' or (i = i' and j < j').
C4_RowsCountAndOrder ==
  status = "exit0"
    => /\ Len(Rows) = cfg.nx * cfg.ny
       /\ \A ii \in 0..(cfg.nx - 1), jj \in 0..(cfg.ny - 1) :
            Cardinality({n \in DOMAIN Rows : RowPair(n) = <<ii, jj>>}) = 1
       /\ \A n \in DOMAIN Rows :
            /\ Rows[n].i \in 0..(cfg.nx - 1)
            /\ Rows[n].j \in 0..(cfg.ny - 1)
       /\ \A m, n \in DOMAIN Rows : (m < n) <=> PairBefore(RowPair(m), RowPair(n))

\* C4 witness: a run over a grid of several columns and rows ended well.
C4_Witness ==
  /\ status = "exit0"
  /\ cfg.nx >= 2
  /\ cfg.ny >= 3
  /\ Len(Rows) = cfg.nx * cfg.ny

\* The cell-centre coordinates of the output grid, from the configuration
CentreX(ii) == RAdd(cfg.xmin, RDiv(RMul(cfg.Deltax, Rat(2 * ii + 1)), Rat(2)))
CentreY(jj) == RAdd(cfg.ymin, RDiv(RMul(cfg.Deltay, Rat(2 * jj + 1)), Rat(2)))

\* The calls sample_fields made to interpolate for the pair (ii, jj)
CallsFor(ii, jj) == {n \in DOMAIN calls : calls[n].i = ii /\ calls[n].j = jj}

\* Each row was sampled at the cell centre of its pair
SampledAtCentre(r) ==
  /\ CallsFor(r.i, r.j) # {}
  /\ \A n \in CallsFor(r.i, r.j) :
       calls[n].x = CentreX(r.i) /\ calls[n].y = CentreY(r.j)

\* C5 (as claimed): the x, y printed in the row of (i,j) are exactly
\* Deltax*(i+0.5)+xmin and Deltay*(j+0.5)+ymin, the coordinates at which
\* sample_fields called interpolate for (i,j).
C5_PrintedCoordinatesExact ==
  \A n \in DOMAIN Rows :
    /\ Rows[n].vals[1] = RatVal(CentreX(Rows[n].i))
    /\ Rows[n].vals[2] = RatVal(CentreY(Rows[n].j))
    /\ SampledAtCentre(Rows[n])

\* a "%g" rendering lies within half a unit of the sixth digit: |p - a| <= |a|/10^5/2
WithinSixDigits(p, a) ==
  LET d == RSub(p, a)
      absd == IF d[1] < 0 THEN RSub(Rat(0), d) ELSE d
      absa == IF a[1] < 0 THEN RSub(Rat(0), a) ELSE a
  IN  RLe(RMul(absd, Rat(200000)), absa)

\* C5 (amended): the x, y printed in the row of (i,j) are the "%g" renderings,
\* to six significant digits, of Deltax*(i+0.5)+xmin and Deltay*(j+0.5)+ymin,
\* and these are the coordinates at which sample_fields called interpolate
\* for (i,j).
C5_PrintedCoordinates ==
  \A n \in DOMAIN Rows :
    /\ Rows[n].vals[1] = FmtG(RatVal(CentreX(Rows[n].i)))
    /\ Rows[n].vals[2] = FmtG(RatVal(CentreY(Rows[n].j)))
    /\ WithinSixDigits(Rows[n].vals[1].v, CentreX(Rows[n].i))
    /\ WithinSixDigits(Rows[n].vals[2].v, CentreY(Rows[n].j))
    /\ SampledAtCentre(Rows[n])

\* C5 witness: a row whose x does not fit six digits (1/6) has been written.
C5_Witness ==
  \E n \in DOMAIN Rows :
    /\ CentreX(Rows[n].i) = <<1, 6>>
    /\ Rows[n].vals[1] = RatVal(<<166667, 1000000>>)

\* The value of registered field k (from 1) at the cell centre of (ii, jj)
FieldAtCentre(k, ii, jj) == interpolate(field_list[k], CentreX(ii), CentreY(jj))

\* C6: every data row has 2+F values, x, y and F field values, F the number
\* of registered fields, and the k-th field column holds the k-th registered
\* field: the strain rate D2c first, the velocity magnitude second.
C6_RowColumns ==
  \A n \in DOMAIN Rows :
    LET r == Rows[n]
        F == Len(field_list)
    IN  /\ Len(r.vals) = 2 + F
        /\ field_list = <<"D2c", "vel">>
        /\ \A k \in 1..F : r.vals[2 + k] = FmtG(FieldAtCentre(k, r.i, r.j))
        /\ r.vals[3] = FmtG(interpolate("D2c", CentreX(r.i), CentreY(r.j)))
        /\ r.vals[4] = FmtG(interpolate("vel", CentreX(r.i), CentreY(r.j)))

\* C6 witness: a row whose two field columns differ has been written.
C6_Witness ==
  \E n \in DOMAIN Rows :
    /\ Len(Rows[n].vals) = 4
    /\ Rows[n].vals[3].k = "g:log10"
    /\ Rows[n].vals[4].k \in {"rat", "g:sqrt"}

\* A run in which something failed: validation, the grid, the restore of the
\* snapshot or the allocation
FailedRun ==
  \/ status \in {"exit1", "signal"}
  \/ restore_result \in {"false", "exit"}

C8_RestoreFailureFatal ==
  restore_result \in {"false", "exit"}
    => /\ pc = "done"
       /\ status = "exit1"
       /\ Timescalled("restore") = 1
       /\ ~Called("compute_D2c_field")
       /\ ~Called("compute_velocity_field")
       /\ ~Called("sample_fields")
       /\ ~Called("write_fields")
       /\ Rows = <<>>

\* Whether compute_D2c_field has run over the restored mesh
D2cComputed == restore_result = "ok" /\ Called("compute_D2c_field")

\* mu_r = f + (1-f)*0.02 times the second invariant, for cell c
ViscousD2(c) == RMul(RAdd(f[c], RMul(RSub(Rat(1), f[c]), <<1, 50>>)), D2(c))

\* C9: for every cell of the source mesh the strain-rate kernel stores
\* log10(mu_r*D2) when mu_r*D2 > 0 and the floor -10 otherwise; no cell is
\* skipped and no stored value is NaN or infinite.
C9_StrainRateFloor ==
  D2cComputed
    => \A c \in grid.leaves :
         /\ RLt(Rat(0), ViscousD2(c)) => D2c[c] = Val("log10", ViscousD2(c))
         /\ RLe(ViscousD2(c), Rat(0)) => D2c[c] = RatVal(Rat(-10))
         /\ D2c[c].k \in {"rat", "log10"}

\* C9 witness: one mesh holds a cell at the floor and a cell with a logarithm.
C9_Witness ==
  /\ D2cComputed
  /\ \E c \in grid.leaves : D2c[c] = RatVal(Rat(-10)) /\ ViscousD2(c) = Rat(0)
  /\ \E c \in grid.leaves : D2c[c].k = "log10"

\* a field value that is >= 0
NonNegative(x) ==
  CASE x.k \in {"rat", "sqrt", "g:sqrt"} -> x.v[1] >= 0
    [] x.k = "nodata" -> TRUE
    [] x.k \in {"log10", "g:log10"} -> RLe(Rat(1), x.v)
    [] OTHER -> FALSE

\* sqrt(ux^2 + uy^2) of the leaf c
Speed(c) == sqrt(RAdd(RMul(u.x[c], u.x[c]), RMul(u.y[c], u.y[c])))

\* C10: the velocity-magnitude output is always >= 0 and is sqrt(ux^2+uy^2)
\* at the sampled point: in the mesh after the kernel, in what sample_fields
\* reads at every point on the mesh, and in the column written.
C10_VelocityMagnitude ==
  /\ (restore_result = "ok" /\ Called("compute_velocity_field"))
       => \A c \in grid.leaves : vel[c] = Speed(c) /\ NonNegative(vel[c])
  /\ \A n \in DOMAIN calls :
       calls[n].s = "vel"
         => /\ NonNegative(calls[n].value)
            /\ Locate(calls[n].x, calls[n].y) # <<>>
                 => calls[n].value = Speed(Locate(calls[n].x, calls[n].y))
  /\ \A n \in DOMAIN Rows :
       LET p == Locate(CentreX(Rows[n].i), CentreY(Rows[n].j))
       IN  /\ NonNegative(Rows[n].vals[4])
           /\ p # <<>> => Rows[n].vals[4] = FmtG(Speed(p))

\* C10 witness: a positive speed that is no integer has been sampled on the
\* mesh and written.
C10_Witness ==
  \E n \in DOMAIN Rows :
    /\ Locate(CentreX(Rows[n].i), CentreY(Rows[n].j)) # <<>>
    /\ Rows[n].vals[4].k = "g:sqrt"

(* ---------------------- the two geometry policies ---------------------- *)

\* The run of the AXI=0 build has ended with status 0 on the input on which the
\* AXI=1 build ran before: same command line, same snapshot file
TwinRuns ==
  /\ twin.ran
  /\ pc = "done"
  /\ status = "exit0"
  /\ AXI = 0
  /\ twin.restore_result = restore_result
  /\ twin.grid = grid
  /\ twin.f = f
  /\ twin.u = u

\* D11^2 + D33^2 + 2 D13^2 of the leaf c
PlanarD2(c) == RAdd(RAdd(sq(D11(c)), sq(D33(c))), RMul(Rat(2), sq(D13(c))))

\* The strain-rate value of the leaf c for the second invariant d2
StrainOf(d2, c) ==
  LET t == RMul(RAdd(f[c], RMul(RSub(Rat(1), f[c]), <<1, 50>>)), d2)
  IN  IF RLt(Rat(0), t) THEN Val("log10", t) ELSE RatVal(Rat(-10))

\* C11: two runs on the same command line and snapshot, one of the AXI=1 build
\* and one of the AXI=0 build, write the same number of rows, for the same
\* pairs (i,j), with the same x, the same y and the same velocity magnitude;
\* the strain-rate column is that of D11^2+D33^2+2*D13^2 in the AXI=0 run and
\* that of the same sum plus D22^2 in the AXI=1 run, equal off the mesh.
C11_GeometryPolicy ==
  TwinRuns
    => /\ Len(Rows) = Len(twin.rows)
       /\ twin.cfg = cfg
       /\ \A n \in DOMAIN Rows :
            LET a == twin.rows[n]
                b == Rows[n]
                p == Locate(CentreX(b.i), CentreY(b.j))
            IN  /\ a.i = b.i
                /\ a.j = b.j
                /\ a.vals[1] = b.vals[1]
                /\ a.vals[2] = b.vals[2]
                /\ a.vals[4] = b.vals[4]
                /\ Len(a.vals) = 4
                /\ Len(b.vals) = 4
                /\ IF p = <<>>
                     THEN a.vals[3] = b.vals[3]
                     ELSE /\ b.vals[3] = FmtG(StrainOf(PlanarD2(p), p))
                          /\ a.vals[3] = FmtG(StrainOf(RAdd(PlanarD2(p), sq(D22(p))), p))
                          /\ D22(p) = Rat(0) => a.vals[3] = b.vals[3]

\* C11 witness: the two runs have ended and one row differs in the strain-rate
\* column, another row of a cell with velocity gradients does not.
C11_Witness ==
  /\ TwinRuns
  /\ \E n \in DOMAIN Rows : twin.rows[n].vals[3] # Rows[n].vals[3]
  /\ \E n \in DOMAIN Rows :
       /\ twin.rows[n].vals[3] = Rows[n].vals[3]
       /\ Rows[n].vals[3].k = "g:log10"

(* -------------------------- validation messages ------------------------ *)

\* Whether line n of the diagnostic stream is the text t
DiagIs(n, t) == n \in DOMAIN Diags /\ Diags[n].text = t

\* The usage line of parse_arguments is on the diagnostic stream
UsageShown ==
  \E n \in DOMAIN Diags : DiagIs(n, "Usage: <filename> <xmin> <ymin> <xmax> <ymax> <ny>")

\* C12 (as claimed): every rejected command line (wrong argument count,
\* ny <= 0, a bound ordering violation) has put a usage message on the
\* diagnostic stream when the process ends, with a non-zero status.
C12_UsageOnEveryViolation ==
  (pc # "parse_arguments" /\ RejectedCommandLine)
    => /\ UsageShown
       /\ status = "exit1"

\* C12 (amended): every rejected command line has put an error message naming
\* the violation on the diagnostic stream when the process ends, with status
\* 1 and nothing but diagnostics written; the usage line follows the message
\* for a wrong argument count only.
C12_ErrorMessageOnEveryViolation ==
  (pc # "parse_arguments" /\ RejectedCommandLine)
    => /\ status = "exit1"
       /\ pc = "done"
       /\ ferr = Diags
       /\ IF Len(argv) # 7
            THEN /\ Len(Diags) = 2
                 /\ DiagIs(1, "Error: Expected 6 arguments")
                 /\ DiagIs(2, "Usage: <filename> <xmin> <ymin> <xmax> <ymax> <ny>")
            ELSE /\ Len(Diags) = 1
                 /\ ~UsageShown
                 /\ IF ArgNy <= 0
                      THEN DiagIs(1, "Error: ny must be positive.")
                      ELSE DiagIs(1, "Error: Bounds must satisfy xmax>xmin and ymax>ymin.")

\* C12 witness: a command line of six values with ny > 0 and xmax <= xmin has
\* been rejected with the message about the bounds.
C12_Witness ==
  /\ status = "exit1"
  /\ Len(argv) = 7
  /\ ArgNy > 0
  /\ RLe(ArgXmax, ArgXmin)
  /\ DiagIs(1, "Error: Bounds must satisfy xmax>xmin and ymax>ymin.")

\* The tokens of the model that are the text of a double
ParsesAsDouble(tok) == tok \in {"0", "1", "2", "1e300"}

\* One of the four bound tokens of the command line is not a number
NonNumericBound ==
  /\ Len(argv) = 7
  /\ \E k \in 3..6 : ~ParsesAsDouble(argv[k])

\* C13 (as claimed): a command line with a bound token that is not the text of
\* a double is rejected by parse_arguments, whatever the other arguments are:
\* exit status 1, no data row, nothing called after parse_arguments.
C13_NonNumericBoundRejected ==
  (pc # "parse_arguments" /\ NonNumericBound)
    => /\ pc = "done"
       /\ status = "exit1"
       /\ Rows = <<>>
       /\ stages = <<"parse_arguments">>

(* ------------------------------ stage order ---------------------------- *)

\* The position of the first call of fn in stages, 0 when it was not called
FirstCall(fn) ==
  IF Called(fn) THEN CHOOSE n \in DOMAIN stages :
                       stages[n] = fn /\ \A m \in 1..(n - 1) : stages[m] # fn
  ELSE 0

\* C16 (as claimed): the stages of a run that ends well are, in this order and
\* each once: validate the arguments, plan the grid, restore the snapshot,
\* register the fields, run each compute kernel, allocate the buffer, sample,
\* write, release and flush; the fields are never registered before the
\* snapshot is restored.
C16_StageOrder ==
  /\ status = "exit0"
       => stages = <<"parse_arguments", "configure_grid", "restore", "register_fields",
                     "compute_D2c_field", "compute_velocity_field",
                     "allocate_field_buffer", "sample_fields", "write_fields",
                     "cleanup_output">>
  /\ Called("register_fields")
       => /\ Called("restore")
          /\ FirstCall("restore") < FirstCall("register_fields")

(* ------------------------- accesses of the buffer ---------------------- *)

\* The accesses of kind op among the logged ones
AccessesOf(op) == SelectSeq(accesses, LAMBDA a : a.op = op)

\* C17: the buffer has nx rows of (ny+1)*F doubles each; every element that
\* sample_fields stores and write_fields loads has 0 <= i < nx and
\* 0 <= idx <= F*ny - 1, so it lies inside the allocation, and the last F
\* doubles of a row (slot ny) are neither written nor read.
C17_AccessesInsideAllocation ==
  LET F == list_len(field_list)
  IN  /\ field_buffer.state # "none"
           => /\ field_buffer.rows = cfg.nx
              /\ field_buffer.cols = (cfg.ny + 1) * F
      /\ accesses # <<>> => field_buffer.state # "none"
      /\ pc \in {"sample_fields", "write_fields"} => field_buffer.state = "allocated"
      /\ \A n \in DOMAIN accesses :
           /\ 0 <= accesses[n].i /\ accesses[n].i < cfg.nx
           /\ accesses[n].i < field_buffer.rows
           /\ 0 <= accesses[n].idx /\ accesses[n].idx <= F * cfg.ny - 1
           /\ accesses[n].idx < field_buffer.cols
           /\ accesses[n].idx \notin (F * cfg.ny)..(F * cfg.ny + F - 1)
      /\ \A p \in DOMAIN field_buffer.data :
           /\ p[1] \in 0..(cfg.nx - 1)
           /\ p[2] \in 0..(F * cfg.ny - 1)

\* a finished run of more than one row and column whose stores and loads both
\* reached the last element in use, [nx-1][F*ny-1]
C17_Witness ==
  /\ status = "exit0"
  /\ cfg.nx > 1 /\ cfg.ny > 1
  /\ \E n \in DOMAIN accesses :
       /\ accesses[n].op = "store"
       /\ accesses[n].i = cfg.nx - 1
       /\ accesses[n].idx = list_len(field_list) * cfg.ny - 1
  /\ \E n \in DOMAIN accesses :
       /\ accesses[n].op = "load"
       /\ accesses[n].i = cfg.nx - 1
       /\ accesses[n].idx = list_len(field_list) * cfg.ny - 1

(* --------------------- sampling, then writing -------------------------- *)

\* The value interpolate returned for field k (from 1) of the registry at the
\* point of row r is v: sample_fields made that call, at the row's (x, y)
Sampled(r, k, v) ==
  \E m \in DOMAIN calls :
    /\ calls[m].i = r.i /\ calls[m].j = r.j /\ calls[m].k = k - 1
    /\ calls[m].s = field_list[k]
    /\ calls[m].x = CentreX(r.i) /\ calls[m].y = CentreY(r.j)
    /\ calls[m].value = v

\* The buffer positions: distinct (j, k) of a row have distinct positions,
\* no element is stored twice, each element in use has been stored once
\* sampling is over, and an element that is loaded was stored before.
SlotsWrittenOnceReadAfter ==
  LET F == list_len(field_list)
  IN  /\ PastConfigureGrid
           => \A j1, j2 \in 0..(cfg.ny - 1) : \A k1, k2 \in 0..(F - 1) :
                <<j1, k1>> # <<j2, k2>> => Slot(F, j1, k1) # Slot(F, j2, k2)
      /\ \A n, m \in DOMAIN accesses :
           /\ n # m
           /\ accesses[n].op = "store" /\ accesses[m].op = "store"
           => <<accesses[n].i, accesses[n].idx>> # <<accesses[m].i, accesses[m].idx>>
      /\ Called("write_fields")
           => \A ii \in 0..(cfg.nx - 1) : \A jj \in 0..(cfg.ny - 1) : \A k \in 0..(F - 1) :
                \E n \in DOMAIN accesses :
                  accesses[n] = [op |-> "store", i |-> ii, idx |-> Slot(F, jj, k)]
      /\ \A n \in DOMAIN accesses :
           accesses[n].op = "load"
             => \E m \in 1..(n - 1) :
                  accesses[m] = [op |-> "store", i |-> accesses[n].i, idx |-> accesses[n].idx]

\* C18 (as claimed): the value printed in row (i, j), field column k, is
\* exactly the value interpolate returned for the k-th registered field at the
\* row's (x, y); and the buffer positions are distinct, written once and read
\* only after they were written.
C18_PrintedValueIsSampledValue ==
  /\ \A n \in DOMAIN Rows : \A k \in 1..list_len(field_list) :
       Sampled(Rows[n], k, Rows[n].vals[2 + k])
  /\ SlotsWrittenOnceReadAfter

\* C18 (amended): the buffer element of row (i, j), field column k, holds
\* exactly the value interpolate returned for the k-th registered field at the
\* row's (x, y), and the value printed is its "%g" rendering, six significant
\* digits; and the buffer positions are distinct, written once and read only
\* after they were written.
C18_PrintedValueIsRenderedSample ==
  /\ \A n \in DOMAIN Rows : \A k \in 1..list_len(field_list) :
       \E v \in {BufferAt(Rows[n].i, Slot(list_len(field_list), Rows[n].j, k - 1))} :
         /\ Sampled(Rows[n], k, v)
         /\ Rows[n].vals[2 + k] = FmtG(v)
  /\ SlotsWrittenOnceReadAfter

\* a finished run over a restored snapshot with more than one column, where a
\* printed field value is the rendering of a sampled value and differs from it
C18_Witness ==
  /\ status = "exit0"
  /\ restore_result = "ok"
  /\ cfg.ny > 1
  /\ \E n \in DOMAIN Rows : \E k \in 1..list_len(field_list) :
       LET v == BufferAt(Rows[n].i, Slot(list_len(field_list), Rows[n].j, k - 1))
       IN  /\ Rows[n].j > 0
           /\ Sampled(Rows[n], k, v)
           /\ Rows[n].vals[2 + k] = FmtG(v)
           /\ FmtG(v) # v

(* --------------------------- the field registry ------------------------ *)

\* The compute kernel of a registered field, lines 199-200
KernelOf(s) == IF s = "D2c" THEN "compute_D2c_field" ELSE "compute_velocity_field"

\* list is a prefix of longer
IsPrefix(list, longer) ==
  /\ Len(list) <= Len(longer)
  /\ \A n \in DOMAIN list : list[n] = longer[n]

\* The registry in a state: assembled by one call of register_fields that
\* precedes the kernels; its length sizes the buffer, sampling and writing
\* traverse it, and the kernel of each field has run, in registration order,
\* before sample_fields
RegistryState ==
  LET F == list_len(field_list)
  IN  /\ ~Called("register_fields") => field_list = <<>>
      /\ Cardinality({n \in DOMAIN stages : stages[n] = "register_fields"}) <= 1
      /\ \A kernel \in {"compute_D2c_field", "compute_velocity_field"} :
           Called(kernel) => /\ Called("register_fields")
                             /\ FirstCall("register_fields") < FirstCall(kernel)
      /\ field_buffer.state # "none" => field_buffer.cols = (cfg.ny + 1) * F
      /\ \A n \in DOMAIN calls :
           /\ calls[n].k = (n - 1) % F
           /\ calls[n].s = field_list[calls[n].k + 1]
      /\ Len(calls) = F * Cardinality({<<calls[n].i, calls[n].j>> : n \in DOMAIN calls})
      /\ \A n \in DOMAIN Rows : Len(Rows[n].vals) = 2 + F
      /\ Len(AccessesOf("load")) = F * Len(Rows)
      /\ Len(AccessesOf("store")) = Len(calls)
      /\ Called("sample_fields")
           => \A k \in 1..F :
                /\ Called(KernelOf(field_list[k]))
                /\ FirstCall(KernelOf(field_list[k])) < FirstCall("sample_fields")
                /\ \A k2 \in (k + 1)..F :
                     FirstCall(KernelOf(field_list[k])) < FirstCall(KernelOf(field_list[k2]))

\* The registry in a step: it only grows at its end, and it does not change
\* once register_fields has returned
RegistryStep ==
  /\ IsPrefix(field_list, field_list')
  /\ Called("register_fields") => field_list' = field_list

\* C19: the field registry is append-only and assembled once, before any
\* compute kernel runs; from the end of register_fields to the end of the run
\* it does not change, so the count that sizes the buffer, the sequence that
\* sampling traverses and the sequence that writing traverses are the same;
\* and the kernel of every registered field has run, in registration order,
\* before sample_fields reads the field.
C19_RegistryFixed == [](RegistryState) /\ [][RegistryStep]_vars

\* a finished run that sampled and printed both registered fields
C19_Witness ==
  /\ status = "exit0"
  /\ list_len(field_list) = 2
  /\ Len(Rows) > 1
  /\ Len(calls) = 2 * Len(Rows)
  /\ field_buffer.cols = (cfg.ny + 1) * 2

(* ------------------------- the restored snapshot ----------------------- *)

\* The mesh fields in a state: once restore has loaded a snapshot, f and u
\* hold the values of that snapshot at every cell
SnapshotState ==
  restore_result = "ok"
    => \E s \in Snapshots :
         /\ f = [c \in Cells |-> SnapF(s, c)]
         /\ u = [x |-> [c \in Cells |-> SnapUx(s, c)], y |-> [c \in Cells |-> SnapUy(s, c)]]

\* The mesh fields in a step: after restore, f, u and the mesh do not change;
\* a kernel writes its own target only; the later stages write no mesh field
SnapshotStep ==
  /\ restore_result = "ok" => f' = f /\ u' = u /\ grid' = grid
  /\ pc = "compute_D2c_field" => vel' = vel
  /\ pc = "compute_velocity_field" => D2c' = D2c
  /\ pc \in {"allocate_field_buffer", "sample_fields", "write_fields", "cleanup_output", "done"}
       => D2c' = D2c /\ vel' = vel

\* C20: the restored snapshot is never changed: after restore, f and u hold
\* the same values at every cell through compute, sample and write; each
\* kernel writes only its own target scalar (D2c or vel), and sampling and
\* writing write no mesh field.
C20_SnapshotNeverMutated == [](SnapshotState) /\ [][SnapshotStep]_vars

\* a finished run over a restored snapshot with both kernels' results on the
\* leaves and rows printed
C20_Witness ==
  /\ status = "exit0"
  /\ restore_result = "ok"
  /\ Len(Rows) > 0
  /\ \A c \in grid.leaves : D2c[c] # Unset /\ vel[c] # Unset
  /\ \E c \in Cells : u.x[c] # Rat(0)

(* -------------------------------- cleanup ------------------------------ *)

\* How many times fn appears in the sequence log
Count(log, fn) == Cardinality({n \in DOMAIN log : log[n] = fn})

\* Cleanup in a state: it follows the last row, makes its calls in the order
\* flush, close, release; the buffer is allocated at most once and released at
\* most once, released when the run that reached writing has completed, and a
\* run that has not come to allocation has no buffer and released none
CleanupState ==
  /\ cleanup_calls \in {<<>>, <<"fflush", "fclose", "matrix_free">>}
  /\ Count(stages, "allocate_field_buffer") <= 1
  /\ Count(stages, "cleanup_output") <= 1
  /\ Count(cleanup_calls, "matrix_free") <= 1
  /\ Called("cleanup_output")
       => /\ Called("write_fields")
          /\ FirstCall("write_fields") < FirstCall("cleanup_output")
          /\ Len(Rows) = cfg.nx * cfg.ny
          /\ cleanup_calls = <<"fflush", "fclose", "matrix_free">>
          /\ fp_state = "closed"
          /\ field_buffer.state = "freed"
  /\ pc = "done" /\ Called("write_fields") => Called("cleanup_output")
  /\ field_buffer.state = "freed" <=> Count(cleanup_calls, "matrix_free") = 1
  /\ fp_state = "closed" <=> Count(cleanup_calls, "fclose") = 1
  /\ field_buffer.state # "none" => Called("allocate_field_buffer")
  /\ ~Called("allocate_field_buffer")
       => /\ field_buffer.state = "none"
          /\ cleanup_calls = <<>>
          /\ accesses = <<>>

\* Cleanup in a step: a released buffer is not stored to, loaded from or
\* allocated again, and no line is written to a closed channel
CleanupStep ==
  /\ field_buffer.state = "freed" => accesses' = accesses /\ field_buffer' = field_buffer
  /\ fp_state = "closed" => ferr' = ferr /\ fp_state' = fp_state
  /\ field_buffer.state = "allocated" /\ field_buffer'.state # "allocated"
       => field_buffer'.state = "freed"

\* C21: when a run that reached writing completes, cleanup comes after the
\* last row and makes its calls in the order flush, close the channel, release
\* the buffer; the buffer is allocated once and released exactly once, it is
\* not read or written after its release, no row is written after the channel
\* is closed, and a run that fails before allocation neither allocates nor
\* releases a buffer.
C21_CleanupOrder == [](CleanupState) /\ [][CleanupStep]_vars

\* a completed run that wrote more than one row, then flushed, closed and
\* released
C21_Witness ==
  /\ pc = "done"
  /\ status = "exit0"
  /\ Len(Rows) > 1
  /\ cleanup_calls = <<"fflush", "fclose", "matrix_free">>
  /\ field_buffer.state = "freed"
  /\ fp_state = "closed"

(* --------------------------- the planned grid ------------------------- *)

\* C24 (as claimed): every configuration configure_grid accepts has
\* Deltay <= Deltax < 2*Deltay, that is nx*Deltay <= xmax-xmin < (nx+1)*Deltay:
\* an output cell is never narrower in x than in y and never twice as wide.
C24_CellsNearlySquare ==
  PastConfigureGrid
    => LET xspan == RSub(cfg.xmax, cfg.xmin)
       IN  /\ RLe(cfg.Deltay, cfg.Deltax)
           /\ RLt(cfg.Deltax, RMul(Rat(2), cfg.Deltay))
           /\ RLe(RMul(Rat(cfg.nx), cfg.Deltay), xspan)
           /\ RLt(xspan, RMul(Rat(cfg.nx + 1), cfg.Deltay))

\* C26 (as claimed): for every validated input, those whose
\* (xmax-xmin)/Deltay is above the largest int included, configure_grid either
\* stores a positive nx equal to floor((xmax-xmin)/Deltay) or rejects the run;
\* it accepts no configuration whose nx differs from that floor.
C26_NxIsFloorOrRejected ==
  (ValidatedInput /\ Called("configure_grid"))
    => LET q == RDiv(RSub(ArgXmax, ArgXmin),
                     RDiv(RSub(ArgYmax, ArgYmin), Rat(ArgNy)))
       IN  \/ /\ PastConfigureGrid
              /\ cfg.nx > 0
              /\ ~IsBig(q)
              /\ cfg.nx = RFloor(q)
           \/ /\ pc = "done"
              /\ status = "exit1"
              /\ ~Called("register_fields")

(* -------------------------- the sampling points ------------------------ *)

\* The point of call c lies strictly inside the bounds.  The span 1e300 is
\* held as the one value Big, which has no order against itself; there the
\* comparison is the one of (x - xmin)/(xmax - xmin) = (i + 1/2)/nx with 0
\* and 1 (Deltax is (xmax - xmin)/nx, line 176).
StrictlyInside(c) ==
  /\ IF IsBig(cfg.xmax)
       THEN 0 <= c.i /\ c.i < cfg.nx /\ cfg.Deltax = RDiv(RSub(cfg.xmax, cfg.xmin), Rat(cfg.nx))
       ELSE RLt(cfg.xmin, c.x) /\ RLt(c.x, cfg.xmax)
  /\ RLt(cfg.ymin, c.y) /\ RLt(c.y, cfg.ymax)

\* C25: every point at which sample_fields calls interpolate lies strictly
\* inside the configured bounds: for 0 <= i < nx and 0 <= j < ny,
\* xmin < x_i < xmax and ymin < y_j < ymax; and x_i grows strictly with i, y_j
\* with j.
C25_SamplesStrictlyInside ==
  /\ \A n \in DOMAIN calls :
       /\ 0 <= calls[n].i /\ calls[n].i < cfg.nx
       /\ 0 <= calls[n].j /\ calls[n].j < cfg.ny
       /\ calls[n].x = CellX(cfg, calls[n].i)
       /\ calls[n].y = CellYOut(cfg, calls[n].j)
       /\ StrictlyInside(calls[n])
  /\ \A n, m \in DOMAIN calls :
       /\ (calls[n].i < calls[m].i /\ ~IsBig(cfg.xmax)) => RLt(calls[n].x, calls[m].x)
       /\ calls[n].i = calls[m].i => calls[n].x = calls[m].x
       /\ calls[n].j < calls[m].j => RLt(calls[n].y, calls[m].y)
       /\ calls[n].j = calls[m].j => calls[n].y = calls[m].y

\* a finished run that sampled more than one column and more than one row of
\* points, the first and the last of them inside the bounds
C25_Witness ==
  /\ status = "exit0"
  /\ cfg.nx > 1 /\ cfg.ny > 1
  /\ ~IsBig(cfg.xmax)
  /\ \E n, m \in DOMAIN calls :
       /\ calls[n].i = 0 /\ calls[n].j = 0
       /\ calls[m].i = cfg.nx - 1 /\ calls[m].j = cfg.ny - 1
       /\ RLt(cfg.xmin, calls[n].x) /\ RLt(calls[n].x, calls[m].x)
       /\ RLt(calls[m].x, cfg.xmax)
       /\ RLt(cfg.ymin, calls[n].y) /\ RLt(calls[n].y, calls[m].y)
       /\ RLt(calls[m].y, cfg.ymax)

(* ------------------------------ termination --------------------------- *)

\* matrix_new found no memory: the run was killed at allocate_field_buffer
AllocationFailed ==
  /\ status = "signal"
  /\ Called("allocate_field_buffer")
  /\ field_buffer.state = "none"

\* C27 (as claimed), in its finite-run form: a run that has ended has ended
\* with a failure exit (status 1) or at the end of cleanup (status 0); the run
\* that ended with status 0 has made exactly nx*ny*F interpolate calls and
\* written nx*ny rows; and a run is at a statement of main or has ended, each
\* function called once: no state in which it waits, and no retry.  (Runs
\* that the machine refused the buffer's memory are left aside.)
C27_EveryRunEndsWithStatus ==
  ~AllocationFailed
    => /\ pc = "done" => status \in {"exit0", "exit1"}
       /\ status # "running" => pc = "done"
       /\ status = "exit0"
            => /\ Called("cleanup_output")
               /\ Len(calls) = cfg.nx * cfg.ny * list_len(field_list)
               /\ Len(Rows) = cfg.nx * cfg.ny
       /\ status = "exit1" => Rows = <<>> /\ calls = <<>>
       /\ \A fn \in {stages[n] : n \in DOMAIN stages} : Count(stages, fn) = 1
       /\ pc \in {"parse_arguments", "configure_grid", "register_fields", "restore",
                  "compute_D2c_field", "compute_velocity_field", "allocate_field_buffer",
                  "sample_fields", "write_fields", "cleanup_output", "done"}

(* ============== properties of the parameter sweep runner =============== *)

\* The values of sweep variable d (from 1), as the script reads them
ValueList(d) == read_array(SWEEP_VALUES[d])

\* The product of the lengths of the value lists from variable d on
RECURSIVE ProductOfLengths(_)
ProductOfLengths(d) ==
  IF d > Len(SWEEP_VARS) THEN 1 ELSE Len(ValueList(d)) * ProductOfLengths(d + 1)

\* The elements of the Cartesian product, each as the positions it takes in
\* the value lists
IndexTuples ==
  LET longest == CHOOSE m \in 0..8 :
                   /\ \A d \in DOMAIN SWEEP_VARS : Len(ValueList(d)) <= m
                   /\ m = 0 \/ \E d \in DOMAIN SWEEP_VARS : Len(ValueList(d)) = m
  IN  {t \in [DOMAIN SWEEP_VARS -> 1..longest] :
         \A d \in DOMAIN SWEEP_VARS : t[d] <= Len(ValueList(d))}

\* The parameter file lines has the key, with the value val on each of its lines
Carries(lines, key, val) ==
  /\ \E n \in DOMAIN lines : lines[n].k = key
  /\ \A n \in DOMAIN lines : lines[n].k = key => lines[n].v = val

\* The case file holds the values of the element t of the product
CarriesTuple(lines, t) ==
  \A d \in DOMAIN SWEEP_VARS : Carries(lines, SWEEP_VARS[d], ValueList(d)[t[d]])

\* generate_sweep_combinations has returned
GenerationDone ==
  \E n \in DOMAIN sweep_out :
    sweep_out[n].text = "Generated $SWEEP_COMBINATION_COUNT parameter combinations"

\* C14 (as claimed): generate_sweep_combinations makes one case file for each
\* element of the Cartesian product of the SWEEP_* value lists, as many files
\* as the product of the list lengths; the k-th file made (k from 0) carries
\* CaseNo = CASE_START + k, and each file carries the values of its element
\* of the product for every sweep variable, no element twice.
C14_CartesianProduct ==
  /\ GenerationDone
       => /\ SWEEP_COMBINATION_COUNT = ProductOfLengths(1)
          /\ Len(SWEEP_CASE_FILES) = ProductOfLengths(1)
          /\ Cardinality(IndexTuples) = ProductOfLengths(1)
  /\ \A k \in DOMAIN SWEEP_CASE_FILES :
       SWEEP_CASE_FILES[k] \in DOMAIN temp_dir
         => /\ Carries(temp_dir[SWEEP_CASE_FILES[k]], "CaseNo",
                       ToString(Number(sweep_file.CASE_START) + k - 1))
            /\ \E t \in IndexTuples : CarriesTuple(temp_dir[SWEEP_CASE_FILES[k]], t)
  /\ \A k, m \in DOMAIN SWEEP_CASE_FILES :
       (k # m /\ SWEEP_CASE_FILES[k] \in DOMAIN temp_dir /\ SWEEP_CASE_FILES[m] \in DOMAIN temp_dir)
         => /\ SWEEP_CASE_FILES[k] # SWEEP_CASE_FILES[m]
            /\ \A t \in IndexTuples :
                 ~(CarriesTuple(temp_dir[SWEEP_CASE_FILES[k]], t)
                     /\ CarriesTuple(temp_dir[SWEEP_CASE_FILES[m]], t))

\* -n or --dry-run is among the options given
DryRunRequested == \E n \in DOMAIN sweep_argv : sweep_argv[n] \in {"-n", "--dry-run"}

\* Line n of the output opens the display of a combination: "Case <number>:"
\* and, after it, one line "  <variable> = <value>" for each sweep variable,
\* the value one of the variable's list
ShowsCombination(n) ==
  /\ sweep_out[n].text = "Case $SWEEP_CASE_NUM:"
  /\ n + Len(SWEEP_VARS) <= Len(sweep_out)
  /\ \A d \in DOMAIN SWEEP_VARS :
       /\ sweep_out[n + d].text = "  var = val"
       /\ sweep_out[n + d].var = SWEEP_VARS[d]
       /\ \E a \in DOMAIN ValueList(d) : sweep_out[n + d].val = ValueList(d)[a]

\* The values displayed after the "Case" line n
ShownValues(n) == [d \in DOMAIN SWEEP_VARS |-> sweep_out[n + d].val]

\* Every combination has been displayed: as many "Case" lines as the product
\* of the list lengths, numbered from CASE_START, no combination twice
CombinationsShown ==
  LET shown == {n \in DOMAIN sweep_out : sweep_out[n].text = "Case $SWEEP_CASE_NUM:"}
  IN  /\ Cardinality(shown) = ProductOfLengths(1)
      /\ \A n \in shown : ShowsCombination(n)
      /\ \A n, m \in shown : n # m => ShownValues(n) # ShownValues(m)
      /\ {sweep_out[n].n : n \in shown}
           = {Number(sweep_file.CASE_START) + k : k \in 0..(ProductOfLengths(1) - 1)}

\* An error message is on stderr
SweepErrorShown ==
  \E n \in DOMAIN sweep_out :
    /\ sweep_out[n].stream = "err"
    /\ sweep_out[n].text
         # "WARNING: Generated $SWEEP_COMBINATION_COUNT combinations, but CASE_END suggests $expected_count"

\* The dry run ended as a dry run: combinations displayed, status 0
DryRunCompleted ==
  /\ sweep_status = "exit0"
  /\ sweep_out # <<>>
  /\ sweep_out[Len(sweep_out)].text = "Dry run complete. No simulations executed."
  /\ CombinationsShown
  /\ ~SweepErrorShown

\* C15: with --dry-run (or -n) runParameterSweep.sh never calls
\* runSimulation.sh, for Stage 1 or Stage 2, and when it ends it has either
\* displayed every parameter combination and exits with status 0, or exits
\* with status 1 after an error message (options, sweep file, case range,
\* too many combinations), or has printed the usage for --help; the sweep file
\* of the documentation (Oh and Bond with two values, cases 1000 to 1003) is
\* displayed and exits with 0.
C15_DryRun ==
  DryRunRequested
    => /\ invocations = <<>>
       /\ sweep_pc \notin {"stage1", "stage2", "complete"}
       /\ sweep_pc = "done"
            => \/ DryRunCompleted
               \/ sweep_status = "exit1" /\ SweepErrorShown
               \/ /\ sweep_status = "exit0"
                  /\ \E n \in DOMAIN sweep_argv : sweep_argv[n] = "--help"
                  /\ sweep_out = <<Echo("Usage: $0 [OPTIONS] [sweep_file]")>>
       /\ (/\ sweep_pc = "done"
           /\ sweep_argv = <<"--dry-run">>
           /\ sweep_file = [exists |-> TRUE, BASE_CONFIG |-> "default.params",
                            CASE_START |-> "1000", CASE_END |-> "1003",
                            sweeps |-> <<Line("Oh", "0.01,0.02"),
                                         Line("Bond", "0.001,0.002  # Bond")>>]
           /\ base_config.exists)
            => /\ DryRunCompleted
               /\ Len(SWEEP_CASE_FILES) = 4

\* C15 witness: a dry run over four combinations has ended with status 0.
C15_Witness ==
  /\ DryRunRequested
  /\ sweep_pc = "done"
  /\ DryRunCompleted
  /\ Len(SWEEP_CASE_FILES) = 4

(* ------------------------- the simulation loop ------------------------- *)

\* Neither --stage1-only nor --stage2-only was given
BothStagesMode == flags.STAGE1_ONLY = 0 /\ flags.STAGE2_ONLY = 0

\* Some invocation of runSimulation.sh has failed
SomeStageFailed == \E n \in DOMAIN invocations : invocations[n].result # "exit0"

\* C22: in the default mode (both stages) the cases are processed one at a
\* time in generation order; for each case Stage 1 is invoked and has returned
\* before Stage 2 of that case is invoked; and when an invocation fails the
\* sweep stops at once: Stage 2 of that case and every stage of every later
\* case are not run.
C22_StagesInOrderStopOnFailure ==
  BothStagesMode
    => /\ Len(invocations) <= 2 * Len(SWEEP_CASE_FILES)
       /\ \A n \in DOMAIN invocations :
            /\ invocations[n].stage = IF n % 2 = 1 THEN "--stage1" ELSE "--stage2"
            /\ invocations[n].param_file = SWEEP_CASE_FILES[(n + 1) \div 2]
            /\ n < Len(invocations) => invocations[n].result = "exit0"
       /\ SomeStageFailed
            => /\ sweep_pc = "done"
               /\ sweep_status = invocations[Len(invocations)].result
               /\ sweep_status # "exit0"
       /\ sweep_pc = "done" /\ sweep_status = "exit0" /\ invocations # <<>>
            => Len(invocations) = 2 * Len(SWEEP_CASE_FILES)

\* a sweep of several cases in the default mode that stopped at a failing
\* Stage 1 of a later case, the stages of the cases before it having run
C22_Witness ==
  /\ BothStagesMode
  /\ sweep_pc = "done"
  /\ Len(SWEEP_CASE_FILES) > 2
  /\ Len(invocations) = 3
  /\ invocations[3].stage = "--stage1"
  /\ invocations[3].result # "exit0"
  /\ invocations[3].param_file = SWEEP_CASE_FILES[2]

(* --------------------------- the case numbers -------------------------- *)

\* The case range the script accepts, lines 127-147
CaseRangeValid ==
  /\ sweep_file.CASE_START # "" /\ sweep_file.CASE_END # ""
  /\ 1000 <= Number(sweep_file.CASE_START)
  /\ Number(sweep_file.CASE_START) <= Number(sweep_file.CASE_END)
  /\ Number(sweep_file.CASE_END) <= 9999

\* More combinations were generated than the range has numbers
TooManyCombinations ==
  SWEEP_COMBINATION_COUNT > Number(sweep_file.CASE_END) - Number(sweep_file.CASE_START) + 1

\* The script has come to the tests of the range and of the count
PastCountValidation == sweep_pc \in {"stage1", "stage2", "complete", "done"}

\* C23 (as claimed): every simulation a sweep launches has a CaseNo in
\* [CASE_START, CASE_END], with 1000 <= CASE_START <= CASE_END <= 9999; when
\* the range is invalid, or more combinations are generated than
\* CASE_END - CASE_START + 1, the script exits with status 1 before it
\* launches a simulation.
C23_LaunchedCaseNoInRange ==
  /\ \A n \in DOMAIN invocations :
       /\ CaseRangeValid
       /\ Number(sweep_file.CASE_START) <= Number(invocations[n].CaseNo)
       /\ Number(invocations[n].CaseNo) <= Number(sweep_file.CASE_END)
  /\ (sweep_file.exists /\ (~CaseRangeValid \/ (PastCountValidation /\ TooManyCombinations)))
       => /\ invocations = <<>>
          /\ sweep_pc \notin {"stage1", "stage2", "complete"}
          /\ sweep_pc = "done"
               => \/ sweep_status = "exit1"
                  \/ \E n \in DOMAIN sweep_argv : sweep_argv[n] = "--help"

====
